---- MODULE Spec2Model ----
(***************************************************************************)
(* docs-cloner: the crawl pipeline of internal/pipeline (Run,              *)
(* fetchSitemapURLs, processPage, matchesFilter), the fetcher, the         *)
(* sitemap parser, the writer and the cobra entry point, as one state      *)
(* machine.  Text (URLs, patterns, paths) is a sequence of one-character   *)
(* strings, so that substring tests and path mapping are computed.         *)
(***************************************************************************)
EXTENDS Integers, Sequences, FiniteSets, Bags, TLC

(***************************************************************************)
(* Bounds of the model.                                                    *)
(***************************************************************************)
\* cfg.Concurrency ranges over 1..MaxConc in the scheduling runs
MaxConc == 2
\* a page-list root sitemap lists the first 0..MaxPages pages of AllPages
MaxPages == 2
\* fetchSitemapURLs is followed to at most MaxDepth nested calls
MaxDepth == 4

(***************************************************************************)
(* strings.* helpers on sequences of characters                            *)
(***************************************************************************)
HasPrefix(s, p) == Len(p) <= Len(s) /\ SubSeq(s, 1, Len(p)) = p

HasSuffix(s, p) == Len(p) <= Len(s) /\ SubSeq(s, Len(s) - Len(p) + 1, Len(s)) = p

TrimPrefix(s, p) == IF HasPrefix(s, p) THEN SubSeq(s, Len(p) + 1, Len(s)) ELSE s

TrimSuffix(s, p) == IF HasSuffix(s, p) THEN SubSeq(s, 1, Len(s) - Len(p)) ELSE s

\* strings.Contains: the empty pattern is contained in every string
Contains(s, p) == \E i \in 0..(Len(s) - Len(p)) : SubSeq(s, i + 1, i + Len(p)) = p

RECURSIVE Concat(_)
\* the concatenation of a sequence of sequences
Concat(ss) == IF ss = <<>> THEN <<>> ELSE Head(ss) \o Concat(Tail(ss))

RECURSIVE SelectSeqNonEmpty(_)
\* the entries with Loc != "" in document order (Parse's `if s.Loc != ""`)
SelectSeqNonEmpty(locs) ==
    IF locs = <<>> THEN <<>>
    ELSE IF Head(locs) # <<>> THEN <<Head(locs)>> \o SelectSeqNonEmpty(Tail(locs))
         ELSE SelectSeqNonEmpty(Tail(locs))

(***************************************************************************)
(* The site: page URLs and sitemap documents                               *)
(***************************************************************************)
PageA == <<"/", "d", "/", "a">>
PageB == <<"/", "b", "/", "a">>
PageC == <<"/", "d", "/", "x">>
PageD == <<"/", "b", "/", "x">>
PageE == <<"/", "d", "/">>
PageF == <<"/", "d", "/", "i", "n", "d", "e", "x", ".", "h", "t", "m", "l">>

\* distinct page URLs, the pool page lists are drawn from
AllPages == <<PageA, PageB, PageC, PageD, PageE, PageF>>

SM0 == <<"s", "0">>
SM1 == <<"s", "1">>
SM2 == <<"s", "2">>
SM3 == <<"s", "3">>

SitemapURLs == {SM0, SM1, SM2, SM3}

\* cfg.SitemapURL
EntryURL == SM0

\* cfg.OutputDir
OutputDir == <<"o">>

\* a file present under the output directory before the run
OldFile == <<"o", "/", "o", "l", "d", ".", "m", "d">>

\* what the server answers for a sitemap URL: transport/HTTP outcome, the
\* XML root element, the <loc> texts of its entries of the root's own kind
\* (<url> in a urlset, <sitemap> in a sitemapindex) in document order, and
\* those of its entries of the other kind
MixedDoc(status, root, locs, other) ==
    [status |-> status, root |-> root, locs |-> locs, other |-> other]

Doc(status, root, locs) == MixedDoc(status, root, locs, <<>>)

FailDoc == Doc("fail", "urlset", <<>>)


(***************************************************************************)
(* sitemap.Parse                                                           *)
(***************************************************************************)
\* mutant: the root element's name is not compared with the struct's XMLName
Unmarshal_AnyRoot(doc, name) ==
    IF doc.root = "" THEN [err |-> TRUE, Local |-> "", locs |-> <<>>]
    ELSE [err |-> FALSE, Local |-> doc.root, locs |-> doc.locs]

\* xml.Unmarshal(data, &v) for a struct whose XMLName is tagged `name`: an
\* error when the text is not XML or its root element has another name,
\* otherwise XMLName.Local and the <loc> texts of the entries the struct has
\* a field for, which are those of the root's own kind
Unmarshal(doc, name) ==
    IF doc.root # name THEN [err |-> TRUE, Local |-> "", locs |-> <<>>]
    ELSE [err |-> FALSE, Local |-> doc.root, locs |-> doc.locs]

\* index first, then urlset; any other root element is an unmarshal error
Parse(doc) ==
    LET idx == Unmarshal(doc, "sitemapindex")
        urlset == Unmarshal(doc, "urlset")
    IN  IF ~idx.err /\ idx.Local = "sitemapindex"
        THEN [err |-> FALSE, PageURLs |-> <<>>, SubSitemaps |-> SelectSeqNonEmpty(idx.locs)]
        ELSE IF urlset.err
        THEN [err |-> TRUE, PageURLs |-> <<>>, SubSitemaps |-> <<>>]
        ELSE [err |-> FALSE, PageURLs |-> SelectSeqNonEmpty(urlset.locs), SubSitemaps |-> <<>>]

(***************************************************************************)
(* pipeline.matchesFilter and the filter loop of Run                       *)
(***************************************************************************)
\* mutant: an include match is accepted before the exclude list is looked at
matchesFilter_IncludeWins(url, include, exclude) ==
    IF Len(include) > 0
    THEN \E i \in 1..Len(include) : Contains(url, include[i])
    ELSE \A i \in 1..Len(exclude) : ~Contains(url, exclude[i])

matchesFilter(url, include, exclude) ==
    /\ (Len(include) > 0 => \E i \in 1..Len(include) : Contains(url, include[i]))
    /\ \A i \in 1..Len(exclude) : ~Contains(url, exclude[i])

\* the build is not a Windows build: runtime.GOOS != "windows"
sanitizeMSYSPaths(patterns) == patterns

RECURSIVE FilterLoop(_, _, _)
\* `for _, u := range urls { if matchesFilter(...) { filtered = append(filtered, u) } }`
FilterLoop(us, include, exclude) ==
    IF us = <<>> THEN <<>>
    ELSE IF matchesFilter(Head(us), include, exclude)
         THEN <<Head(us)>> \o FilterLoop(Tail(us), include, exclude)
         ELSE FilterLoop(Tail(us), include, exclude)

\* Run, lines 43-56: the loop runs only when a pattern list is non-empty
FilterURLs(us, include, exclude) ==
    IF Len(include) > 0 \/ Len(exclude) > 0
    THEN FilterLoop(us, include, exclude)
    ELSE us

(***************************************************************************)
(* writer.URLToFilePath, writer.Frontmatter                                *)
(***************************************************************************)
RECURSIVE URLPath(_)
\* url.Parse(rawURL).Path for a URL without scheme and host: the text before
\* the first "?" or "#"
URLPath(raw) ==
    IF raw = <<>> \/ Head(raw) \in {"?", "#"} THEN <<>>
    ELSE <<Head(raw)>> \o URLPath(Tail(raw))

RECURSIVE SplitSlash(_, _)
\* the segments of a path between "/" separators; cur is the segment being read
SplitSlash(s, cur) ==
    IF s = <<>> THEN <<cur>>
    ELSE IF Head(s) = "/" THEN <<cur>> \o SplitSlash(Tail(s), <<>>)
         ELSE SplitSlash(Tail(s), Append(cur, Head(s)))

RECURSIVE CleanSegs(_, _)
\* filepath.Clean on the segments of a relative path: empty and "." segments
\* are dropped, ".." removes the segment before it or stays at the front
CleanSegs(segs, out) ==
    IF segs = <<>> THEN out
    ELSE LET sg == Head(segs) IN
         IF sg = <<>> \/ sg = <<".">> THEN CleanSegs(Tail(segs), out)
         ELSE IF sg = <<".", ".">>
              THEN IF out # <<>> /\ out[Len(out)] # <<".", ".">>
                   THEN CleanSegs(Tail(segs), SubSeq(out, 1, Len(out) - 1))
                   ELSE CleanSegs(Tail(segs), Append(out, sg))
              ELSE CleanSegs(Tail(segs), Append(out, sg))

RECURSIVE JoinSlash(_)
JoinSlash(segs) ==
    IF segs = <<>> THEN <<".">>
    ELSE IF Len(segs) = 1 THEN Head(segs)
         ELSE Head(segs) \o <<"/">> \o JoinSlash(Tail(segs))

\* filepath.Join(dir, p) for a relative dir: Clean(dir + "/" + p)
FilepathJoin(dir, p) == JoinSlash(CleanSegs(SplitSlash(dir \o <<"/">> \o p, <<>>), <<>>))

KnownExts == << <<".", "h", "t", "m", "l">>, <<".", "h", "t", "m">>, <<".", "p", "h", "p">> >>

RECURSIVE StripExts(_, _)
\* `for _, ext := range [...] { p = strings.TrimSuffix(p, ext) }`
StripExts(p, exts) ==
    IF exts = <<>> THEN p ELSE StripExts(TrimSuffix(p, Head(exts)), Tail(exts))

URLToFilePath(outputDir, rawURL) ==
    LET p0 == TrimPrefix(URLPath(rawURL), <<"/">>)
        p1 == IF p0 = <<>> \/ HasSuffix(p0, <<"/">>)
              THEN p0 \o <<"i", "n", "d", "e", "x">> ELSE p0
        p2 == StripExts(p1, KnownExts)
    IN  FilepathJoin(outputDir, p2 \o <<".", "m", "d">>)

\* the aggregate file's path
SingleFilePath(outputDir) ==
    FilepathJoin(outputDir, <<"a", "l", "l", "-", "p", "a", "g", "e", "s", ".", "m", "d">>)

\* mutant: the title and the URL change places
Frontmatter_Swapped(title, sourceURL) ==
    <<"---\n", "title: ">> \o sourceURL \o <<"\n", "source_url: ">> \o title
        \o <<"\n", "crawl_date: ", "RFC3339", "\n", "---\n", "\n">>

\* the metadata block; the quoting of the title and the timestamp are pieces
Frontmatter(title, sourceURL) ==
    <<"---\n", "title: ">> \o (IF title = <<>> THEN <<"\"\"">> ELSE title)
        \o <<"\n", "source_url: ">> \o sourceURL
        \o <<"\n", "crawl_date: ", "RFC3339", "\n", "---\n", "\n">>


(***************************************************************************)
(* converter.expandPattern, fetcher.Fetch, pipeline.processPage            *)
(***************************************************************************)
RECURSIVE expandPattern(_, _)
\* the placeholder pieces of the pattern replaced from the page URL (which has
\* no host part here)
expandPattern(pattern, pageURL) ==
    IF pattern = <<>> THEN <<>>
    ELSE LET h == Head(pattern)
             r == IF h = "{url}" THEN pageURL
                  ELSE IF h = "{path}" THEN URLPath(pageURL)
                  ELSE IF h = "{host}" THEN <<>>
                  ELSE <<h>>
         IN  r \o expandPattern(Tail(pattern), pageURL)

\* the URL processPage requests for a page
RequestURL(c, pageURL) ==
    IF c.FetchMD # <<>> THEN expandPattern(c.FetchMD, pageURL) ELSE pageURL

\* what the origin server can answer to a page request: a transport or HTTP
\* failure, a body goquery cannot turn into HTML, a body the HTML-to-Markdown
\* conversion rejects, or a good body
Responses == {"fetchErr", "badHTML", "badConv", "ok"}

\* mutant: the request is built without ctx
FetchOK_NoCtx(ctxDone, resp) == resp # "fetchErr"

\* Fetch after its sleep: the request carries ctx (NewRequestWithContext), so
\* it fails once ctx is done; otherwise the server's answer decides
FetchOK(ctxDone, resp) == ~ctxDone /\ resp # "fetchErr"

(***************************************************************************)
(* converter.CleanMarkdown, converter.ExtractTitleFromMarkdown and the     *)
(* title part of extractor.Extract                                         *)
(***************************************************************************)
NL == "\n"

\* the length of the run of newlines at the front of s
RECURSIVE NewlineRun(_)
NewlineRun(s) == IF s = <<>> \/ Head(s) # NL THEN 0 ELSE 1 + NewlineRun(Tail(s))

\* multiBlankLines.ReplaceAllString(md, "\n\n"): every maximal run of three
\* or more newlines becomes two newlines
RECURSIVE CollapseBlankLines(_)
CollapseBlankLines(s) ==
    IF s = <<>> THEN <<>>
    ELSE LET n == NewlineRun(s) IN
         IF n = 0 THEN <<Head(s)>> \o CollapseBlankLines(Tail(s))
         ELSE (IF n >= 3 THEN <<NL, NL>> ELSE SubSeq(s, 1, n))
                  \o CollapseBlankLines(SubSeq(s, n + 1, Len(s)))

\* strings.Split(md, "\n")
RECURSIVE SplitLines(_, _)
SplitLines(s, line) ==
    IF s = <<>> THEN <<line>>
    ELSE IF Head(s) = NL THEN <<line>> \o SplitLines(Tail(s), <<>>)
         ELSE SplitLines(Tail(s), Append(line, Head(s)))

\* strings.Join(lines, "\n")
RECURSIVE JoinLines(_)
JoinLines(lines) ==
    IF lines = <<>> THEN <<>>
    ELSE IF Len(lines) = 1 THEN Head(lines)
         ELSE Head(lines) \o <<NL>> \o JoinLines(Tail(lines))

\* strings.TrimRight(s, cutset)
RECURSIVE TrimRight(_, _)
TrimRight(s, cutset) ==
    IF s # <<>> /\ s[Len(s)] \in cutset THEN TrimRight(SubSeq(s, 1, Len(s) - 1), cutset)
    ELSE s

\* strings.TrimLeft(s, cutset)
RECURSIVE TrimLeft(_, _)
TrimLeft(s, cutset) ==
    IF s # <<>> /\ Head(s) \in cutset THEN TrimLeft(Tail(s), cutset) ELSE s

\* the white space of strings.TrimSpace that occurs in the texts here
WhiteSpace == {" ", "\t", NL, "\r"}

TrimSpace(s) == TrimLeft(TrimRight(s, WhiteSpace), WhiteSpace)

\* the three steps of CleanMarkdown in the order of the code
TrimLines(md) ==
    LET lines == SplitLines(md, <<>>)
    IN  JoinLines([i \in 1..Len(lines) |-> TrimRight(lines[i], {" ", "\t"})])

CleanMarkdown(md) == TrimSpace(TrimLines(CollapseBlankLines(md)))

\* the first line that, trimmed, starts with "# ", without that prefix
RECURSIVE FirstHeading(_)
FirstHeading(lines) ==
    IF lines = <<>> THEN <<>>
    ELSE LET line == TrimSpace(Head(lines)) IN
         IF HasPrefix(line, <<"#", " ">>) THEN TrimPrefix(line, <<"#", " ">>)
         ELSE FirstHeading(Tail(lines))

ExtractTitleFromMarkdown(md) == FirstHeading(SplitLines(md, <<>>))

\* what the server holds for a page: the text of its <title> and of its first
\* <h1>, the Markdown html-to-markdown yields for its content, and the raw
\* Markdown served for it in --fetch-md mode
PageHTMLTitle(u) == IF u \in {PageB, PageC} THEN <<>> ELSE <<" ", "T", NL>>

PageH1(u) == IF u = PageC THEN <<>> ELSE <<"H">>

PageConverted(u) ==
    IF u = PageC THEN <<"#", " ", "X", NL, " ", NL, NL, "b", " ", NL>>
    ELSE <<NL, "b", "o", "d", "y", " ", NL>>

PageRawMD(u) ==
    IF u = PageD THEN <<"b", "o", "d", "y", "\t", NL, NL, NL, NL, "x">>
    ELSE <<" ", "#", " ", "T", " ", NL, " ", NL, NL, "b", NL>>

\* the title Extract returns: <title>, else the first <h1>, trimmed
ExtractTitle(u) ==
    IF TrimSpace(PageHTMLTitle(u)) # <<>> THEN TrimSpace(PageHTMLTitle(u))
    ELSE TrimSpace(PageH1(u))

pageResult(url, title, markdown, err) ==
    [URL |-> url, Title |-> title, Markdown |-> markdown, Err |-> err]

\* the tail of processPage: normalisation, then the metadata block in front
Finish(pageURL, title, markdown) ==
    pageResult(pageURL, title, Frontmatter(title, pageURL) \o CleanMarkdown(markdown), "nil")

\* mutant: a failed extraction keeps the title Extract returned
processPage_KeepTitle(c, pageURL, ctxDone, resp) ==
    IF ~FetchOK(ctxDone, resp) THEN pageResult(pageURL, <<>>, <<>>, "fetch")
    ELSE IF c.FetchMD # <<>>
    THEN LET md == CleanMarkdown(PageRawMD(pageURL))
         IN  Finish(pageURL, ExtractTitleFromMarkdown(md), md)
    ELSE IF resp = "badHTML" THEN pageResult(pageURL, ExtractTitle(pageURL), <<>>, "extraction")
    ELSE IF resp = "badConv" THEN pageResult(pageURL, <<>>, <<>>, "conversion")
    ELSE Finish(pageURL, ExtractTitle(pageURL), CleanMarkdown(PageConverted(pageURL)))

\* processPage from the completion of its request on
processPage(c, pageURL, ctxDone, resp) ==
    IF ~FetchOK(ctxDone, resp) THEN pageResult(pageURL, <<>>, <<>>, "fetch")
    ELSE IF c.FetchMD # <<>>
    THEN LET md == CleanMarkdown(PageRawMD(pageURL))
         IN  Finish(pageURL, ExtractTitleFromMarkdown(md), md)
    ELSE IF resp = "badHTML" THEN pageResult(pageURL, <<>>, <<>>, "extraction")
    ELSE IF resp = "badConv" THEN pageResult(pageURL, <<>>, <<>>, "conversion")
    ELSE Finish(pageURL, ExtractTitle(pageURL), CleanMarkdown(PageConverted(pageURL)))

(***************************************************************************)
(* State                                                                   *)
(***************************************************************************)
Workers == 1..MaxConc

VARIABLES
    cfg,          \* config.Config of the run
    docs,         \* the sitemap documents the server holds, by URL
    pc,           \* position of the main goroutine (cmd.run, then pipeline.Run)
    retErr,       \* what run returned: "nil" or the error
    cancelled,    \* ctx.Done() is closed
    stack,        \* call stack of fetchSitemapURLs, innermost frame last
    urls,         \* Run's urls
    urlCh,        \* buffered contents of urlCh (closed once filled)
    wpc,          \* position of each worker goroutine
    wurl,         \* pageURL of each worker
    wres,         \* result of each worker, between processPage and the send
    widx,         \* history: which queue entry (1..total) the worker holds
    paused,       \* history: <<d>> once time.Sleep(d) returned for the page held
    resultCh,     \* buffered contents of resultCh
    resultClosed, \* number of times close(resultCh) ran
    done,         \* Run's done
    errCount,     \* Run's errCount
    results,      \* Run's results
    cur,          \* the collector's loop variable result
    files,        \* the output directory: path -> content
    fetched,      \* history: the URLs Fetch was called with
    collected,    \* history: the outcomes the collector received, in order
    resp,         \* the server's answer per page URL
    arg,          \* the input of a function applied on its own
    out           \* the results of applying it, in order

vars == <<cfg, docs, pc, retErr, cancelled, stack, urls, urlCh, wpc, wurl, wres,
          widx, paused, resultCh, resultClosed, done, errCount, results, cur,
          files, fetched, collected, resp, arg, out>>

NoResult == pageResult(<<>>, <<>>, <<>>, "nil")

Config(conc, delay, single, clean, fetchMD, include, exclude) ==
    [SitemapURL |-> EntryURL, OutputDir |-> OutputDir, Concurrency |-> conc,
     DelayMS |-> delay, SingleFile |-> single, Clean |-> clean, FetchMD |-> fetchMD,
     Include |-> include, Exclude |-> exclude]

\* --fetch-md without a value
DefaultMDPattern == <<"{url}", ".", "m", "d">>

\* a world whose entry sitemap is the given document
World(root, d1, d2, d3) ==
    [u \in SitemapURLs |->
        IF u = SM0 THEN root ELSE IF u = SM1 THEN d1 ELSE IF u = SM2 THEN d2 ELSE d3]


(***************************************************************************)
(* Initial states: the configuration, the server's documents and pages     *)
(***************************************************************************)
\* the answer of the server for page i of AllPages when that page is broken
BrokenAs(i) == IF i % 3 = 1 THEN "fetchErr" ELSE IF i % 3 = 2 THEN "badHTML" ELSE "badConv"

PageIndex(u) == CHOOSE i \in 1..Len(AllPages) : AllPages[i] = u

PageSet == {AllPages[i] : i \in 1..Len(AllPages)}

\* the server's answer per page URL, given the set of broken pages
SiteOf(broken) == [u \in PageSet |-> IF u \in broken THEN BrokenAs(PageIndex(u)) ELSE "ok"]

\* the output directory before the run
InitialFiles == [p \in {OldFile} |-> <<"o", "l", "d">>]

\* common part of every initial state
InitRun ==
    /\ pc = "run"
    /\ retErr = "nil"
    /\ cancelled = FALSE
    /\ stack = <<>>
    /\ urls = <<>>
    /\ urlCh = <<>>
    /\ wpc = [w \in Workers |-> "none"]
    /\ wurl = [w \in Workers |-> <<>>]
    /\ wres = [w \in Workers |-> NoResult]
    /\ widx = [w \in Workers |-> 0]
    /\ paused = [w \in Workers |-> <<>>]
    /\ resultCh = <<>>
    /\ resultClosed = 0
    /\ done = 0
    /\ errCount = 0
    /\ results = <<>>
    /\ cur = NoResult
    /\ files = InitialFiles
    /\ fetched = {}
    /\ collected = <<>>

\* the crawl applies no function on its own
NoCall == arg = <<>> /\ out = <<>>

\* a page-list sitemap of N unique URLs, any subset of them broken, crawled
\* with 1..MaxConc workers
InitSched ==
    \E n \in 0..MaxPages, c \in 1..MaxConc :
    \E broken \in SUBSET {AllPages[i] : i \in 1..n} :
        /\ cfg = Config(c, 200, FALSE, FALSE, <<>>, <<>>, <<>>)
        /\ docs = World(Doc("ok", "urlset", SubSeq(AllPages, 1, n)), FailDoc, FailDoc, FailDoc)
        /\ resp = SiteOf(broken)

\* documents a sitemap URL may hold
RootDocs ==
    { FailDoc,
      Doc("ok", "html", <<PageA>>),
      Doc("ok", "urlset", <<PageB, <<>>, PageA, PageB>>),
      Doc("ok", "sitemapindex", <<SM1, SM2>>),
      Doc("ok", "sitemapindex", <<SM2, <<>>, SM1, SM2>>),
      Doc("ok", "sitemapindex", <<SM1, SM3>>) }

Sub1Docs ==
    { FailDoc,
      Doc("ok", "html", <<PageA>>),
      Doc("ok", "urlset", <<PageB>>),
      Doc("ok", "sitemapindex", <<SM3, SM2>>) }

Sub2Docs == { FailDoc, Doc("ok", "urlset", <<PageA>>) }

Sub3Docs == { Doc("ok", "html", <<>>), Doc("ok", "urlset", <<PageC, PageA>>) }

\* sitemap indexes, failing documents, invalid configurations; one worker
InitResolve ==
    \E root \in RootDocs, d1 \in Sub1Docs, d2 \in Sub2Docs, d3 \in Sub3Docs :
    \E conc \in 0..1, delay \in {-1, 0}, clean \in BOOLEAN :
        /\ cfg = Config(conc, delay, TRUE, clean, <<>>, <<>>, <<>>)
        /\ docs = World(root, d1, d2, d3)
        /\ resp = SiteOf({PageC})

\* include/exclude patterns
Patterns == { <<>>, << <<"d", "/">> >>, << <<"x">> >>, << <<"/", "b">>, <<"a">> >>, << <<>> >> }

\* filtering, raw-Markdown mode
InitFilter ==
    \E inc \in Patterns, exc \in Patterns, md \in {<<>>, DefaultMDPattern} :
        /\ cfg = Config(1, 0, TRUE, FALSE, md, inc, exc)
        /\ docs = World(Doc("ok", "urlset", <<PageA, PageB, PageC, PageD>>),
                        FailDoc, FailDoc, FailDoc)
        /\ resp = SiteOf({PageB})

\* two URLs of one page list that map to the same file, one of them listed
\* twice, two workers
InitCollide ==
    \E single \in BOOLEAN :
        /\ cfg = Config(2, 0, single, FALSE, <<>>, <<>>, <<>>)
        /\ docs = World(Doc("ok", "urlset", <<PageE, PageF, PageE>>), FailDoc, FailDoc, FailDoc)
        /\ resp = SiteOf({})

\* a sitemap index that lists itself, or whose sub-sitemap lists it
InitCycle ==
    \E self \in BOOLEAN :
        /\ cfg = Config(1, 0, FALSE, FALSE, <<>>, <<>>, <<>>)
        /\ docs = IF self
                  THEN World(Doc("ok", "sitemapindex", <<SM0>>), FailDoc, FailDoc, FailDoc)
                  ELSE World(Doc("ok", "sitemapindex", <<SM2, SM1>>),
                             Doc("ok", "sitemapindex", <<SM0>>),
                             Doc("ok", "urlset", <<PageA>>), FailDoc)
        /\ resp = SiteOf({})

Init ==
    InitRun /\ NoCall /\ (InitSched \/ InitResolve \/ InitFilter \/ InitCollide \/ InitCycle)


(***************************************************************************)
(* cmd.run and the sequential head of pipeline.Run                         *)
(***************************************************************************)
Frame(u) == [url |-> u, phase |-> "fetch", subs |-> <<>>, i |-> 1, urls |-> <<>>]

\* mutant: concurrency 0 is accepted
ConfigError_ZeroOK(c) ==
    IF c.Concurrency < 0 THEN "concurrency must be at least 1"
    ELSE IF c.DelayMS < 0 THEN "delay must be non-negative"
    ELSE "nil"

\* cmd.run: the two configuration checks
ConfigError(c) ==
    IF c.Concurrency < 1 THEN "concurrency must be at least 1"
    ELSE IF c.DelayMS < 0 THEN "delay must be non-negative"
    ELSE "nil"

\* cmd.run up to the call of fetchSitemapURLs in pipeline.Run
RunStart ==
    /\ pc = "run"
    /\ IF ConfigError(cfg) # "nil"
       THEN /\ pc' = "exit"
            /\ retErr' = ConfigError(cfg)
            /\ stack' = stack
       ELSE /\ pc' = "resolve"
            /\ retErr' = retErr
            /\ stack' = <<Frame(cfg.SitemapURL)>>
    /\ UNCHANGED <<arg, out, cfg, docs, cancelled, urls, urlCh, wpc, wurl, wres, widx, paused,
                   resultCh, resultClosed, done, errCount, results, cur, files,
                   fetched, collected, resp>>

\* os.Interrupt arrives: signal.NotifyContext closes ctx.Done()
Cancel ==
    /\ pc \notin {"run", "exit"}
    /\ ~cancelled
    /\ cancelled' = TRUE
    /\ UNCHANGED <<arg, out, cfg, docs, pc, retErr, stack, urls, urlCh, wpc, wurl, wres, widx,
                   paused, resultCh, resultClosed, done, errCount, results, cur,
                   files, fetched, collected, resp>>

(***************************************************************************)
(* pipeline.fetchSitemapURLs, one frame per call                           *)
(***************************************************************************)
DocAt(u) == IF u \in DOMAIN docs THEN docs[u] ELSE FailDoc

\* mutant: `break` instead of `continue`
AfterSubFailure_Break(parent) == [parent EXCEPT !.i = Len(parent.subs) + 1]

\* the caller's frame after `continue` on a failed sub-sitemap
AfterSubFailure(parent) == [parent EXCEPT !.i = @ + 1]

RECURSIVE AppendNew(_, _)
AppendNew(us, more) ==
    IF more = <<>> THEN us
    ELSE IF \E i \in 1..Len(us) : us[i] = Head(more) THEN AppendNew(us, Tail(more))
         ELSE AppendNew(Append(us, Head(more)), Tail(more))

\* mutant: URLs already present are not appended again
AfterSubReturn_Dedup(parent, subURLs) ==
    [parent EXCEPT !.urls = AppendNew(@, subURLs), !.i = @ + 1]

\* the caller's frame after `urls = append(urls, subURLs...)`
AfterSubReturn(parent, subURLs) == [parent EXCEPT !.urls = @ \o subURLs, !.i = @ + 1]

\* the frame after a successful Fetch and Parse: `urls := result.PageURLs`
AfterParse(frame, result) ==
    [frame EXCEPT !.phase = "loop", !.urls = result.PageURLs, !.subs = result.SubSitemaps]

Top == stack[Len(stack)]

Pop == SubSeq(stack, 1, Len(stack) - 1)

\* f.Fetch and sitemap.Parse of the innermost call, and its error returns
SitemapFetch ==
    /\ pc = "resolve"
    /\ Top.phase = "fetch"
    /\ fetched' = fetched \cup {Top.url}
    /\ LET doc == DocAt(Top.url)
           ok == FetchOK(cancelled, IF doc.status = "ok" THEN "ok" ELSE "fetchErr")
                     /\ ~Parse(doc).err
       IN  IF ok
           THEN /\ stack' = [stack EXCEPT ![Len(stack)] = AfterParse(Top, Parse(doc))]
                /\ UNCHANGED <<pc, retErr>>
           ELSE IF Len(stack) = 1
           THEN /\ stack' = <<>>
                /\ pc' = "exit"
                /\ retErr' = "sitemap"
           ELSE /\ stack' = [Pop EXCEPT ![Len(stack) - 1] = AfterSubFailure(@)]
                /\ UNCHANGED <<pc, retErr>>
    /\ UNCHANGED <<arg, out, cfg, docs, cancelled, urls, urlCh, wpc, wurl, wres, widx, paused,
                   resultCh, resultClosed, done, errCount, results, cur, files,
                   collected, resp>>

\* `for _, subURL := range result.SubSitemaps`: the recursive call
SitemapRecurse ==
    /\ pc = "resolve"
    /\ Top.phase = "loop"
    /\ Top.i <= Len(Top.subs)
    /\ Len(stack) < MaxDepth
    /\ stack' = Append(stack, Frame(Top.subs[Top.i]))
    /\ UNCHANGED <<arg, out, cfg, docs, pc, retErr, cancelled, urls, urlCh, wpc, wurl, wres, widx,
                   paused, resultCh, resultClosed, done, errCount, results, cur,
                   files, fetched, collected, resp>>

\* `return urls, nil`, to the calling frame or to Run
SitemapReturn ==
    /\ pc = "resolve"
    /\ Top.phase = "loop"
    /\ Top.i > Len(Top.subs)
    /\ IF Len(stack) = 1
       THEN /\ stack' = <<>>
            /\ urls' = Top.urls
            /\ pc' = "filter"
       ELSE /\ stack' = [Pop EXCEPT ![Len(stack) - 1] = AfterSubReturn(@, Top.urls)]
            /\ UNCHANGED <<urls, pc>>
    /\ UNCHANGED <<arg, out, cfg, docs, retErr, cancelled, urlCh, wpc, wurl, wres, widx, paused,
                   resultCh, resultClosed, done, errCount, results, cur, files,
                   fetched, collected, resp>>

\* Run, lines 43-61: filtering and the empty-list return
FilterStep ==
    /\ pc = "filter"
    /\ urls' = FilterURLs(urls, sanitizeMSYSPaths(cfg.Include), sanitizeMSYSPaths(cfg.Exclude))
    /\ pc' = IF Len(urls') = 0 THEN "exit" ELSE "clean"
    /\ UNCHANGED <<arg, out, cfg, docs, retErr, cancelled, stack, urlCh, wpc, wurl, wres, widx,
                   paused, resultCh, resultClosed, done, errCount, results, cur,
                   files, fetched, collected, resp>>

\* the empty directory
NoFiles == [p \in {} |-> <<>>]

\* Run, lines 63-76: os.RemoveAll when cfg.Clean (it may fail), then the
\* queue is filled and closed
CleanAndFanOut ==
    /\ pc = "clean"
    /\ \E rmOK \in BOOLEAN :
        IF cfg.Clean /\ ~rmOK
        THEN /\ pc' = "exit"
             /\ retErr' = "cleaning output directory"
             /\ UNCHANGED <<files, urlCh>>
        ELSE /\ files' = IF cfg.Clean THEN NoFiles ELSE files
             /\ urlCh' = urls
             /\ pc' = "spawn"
             /\ retErr' = retErr
    /\ UNCHANGED <<arg, out, cfg, docs, cancelled, stack, urls, wpc, wurl, wres, widx, paused,
                   resultCh, resultClosed, done, errCount, results, cur, fetched,
                   collected, resp>>


(***************************************************************************)
(* The worker pool of pipeline.Run                                         *)
(***************************************************************************)
\* capacity of resultCh: make(chan pageResult, cfg.Concurrency*2)
ResultCap == cfg.Concurrency * 2

Started == {w \in Workers : wpc[w] # "none"}

\* `go func(id int)` of the i-th loop iteration; after the last one the
\* closing goroutine is started and the main goroutine enters the collector
StartWorker ==
    /\ pc = "spawn"
    /\ LET w == Cardinality(Started) + 1 IN
        /\ w <= cfg.Concurrency
        /\ wpc' = [wpc EXCEPT ![w] = "range"]
        /\ pc' = IF w = cfg.Concurrency THEN "collect" ELSE "spawn"
    /\ UNCHANGED <<arg, out, cfg, docs, retErr, cancelled, stack, urls, urlCh, wurl, wres, widx,
                   paused, resultCh, resultClosed, done, errCount, results, cur,
                   files, fetched, collected, resp>>

\* mutant: the queue is split among the workers in advance, worker w takes
\* only the entries w, w + Concurrency, ...
WorkerRange_Partition(w) ==
    /\ wpc[w] = "range"
    /\ urlCh # <<>> => ((Len(urls) - Len(urlCh)) % cfg.Concurrency) + 1 = w
    /\ IF urlCh # <<>>
       THEN /\ wurl' = [wurl EXCEPT ![w] = Head(urlCh)]
            /\ widx' = [widx EXCEPT ![w] = Len(urls) - Len(urlCh) + 1]
            /\ paused' = [paused EXCEPT ![w] = <<>>]
            /\ urlCh' = Tail(urlCh)
            /\ wpc' = [wpc EXCEPT ![w] = "check"]
       ELSE /\ wpc' = [wpc EXCEPT ![w] = "returned"]
            /\ UNCHANGED <<wurl, widx, paused, urlCh>>
    /\ UNCHANGED <<arg, out, cfg, docs, pc, retErr, cancelled, stack, urls, wres, resultCh,
                   resultClosed, done, errCount, results, cur, files, fetched,
                   collected, resp>>

\* mutant: the worker reads the head of the queue and leaves it there
WorkerRange_Peek(w) ==
    /\ wpc[w] = "range"
    /\ IF urlCh # <<>>
       THEN /\ wurl' = [wurl EXCEPT ![w] = Head(urlCh)]
            /\ widx' = [widx EXCEPT ![w] = Len(urls) - Len(urlCh) + 1]
            /\ paused' = [paused EXCEPT ![w] = <<>>]
            /\ urlCh' = urlCh
            /\ wpc' = [wpc EXCEPT ![w] = "check"]
       ELSE /\ wpc' = [wpc EXCEPT ![w] = "returned"]
            /\ UNCHANGED <<wurl, widx, paused, urlCh>>
    /\ UNCHANGED <<arg, out, cfg, docs, pc, retErr, cancelled, stack, urls, wres, resultCh,
                   resultClosed, done, errCount, results, cur, files, fetched,
                   collected, resp>>

\* `for pageURL := range urlCh`: take the next URL, or return (wg.Done) when
\* the closed queue is empty
WorkerRange(w) ==
    /\ wpc[w] = "range"
    /\ IF urlCh # <<>>
       THEN /\ wurl' = [wurl EXCEPT ![w] = Head(urlCh)]
            /\ widx' = [widx EXCEPT ![w] = Len(urls) - Len(urlCh) + 1]
            /\ paused' = [paused EXCEPT ![w] = <<>>]
            /\ urlCh' = Tail(urlCh)
            /\ wpc' = [wpc EXCEPT ![w] = "check"]
       ELSE /\ wpc' = [wpc EXCEPT ![w] = "returned"]
            /\ UNCHANGED <<wurl, widx, paused, urlCh>>
    /\ UNCHANGED <<arg, out, cfg, docs, pc, retErr, cancelled, stack, urls, wres, resultCh,
                   resultClosed, done, errCount, results, cur, files, fetched,
                   collected, resp>>

\* mutant: the worker never looks at ctx.Done()
AfterCheck_NoSelect(ctxDone) == "sleep"

\* mutant: Fetch issues the request without sleeping
AfterCheck_NoSleep(ctxDone) == IF ctxDone THEN "returned" ELSE "request"

\* where the worker goes from the select on ctx.Done(): it returns, or it
\* calls processPage, whose first act is Fetch's time.Sleep
AfterCheck(ctxDone) == IF ctxDone THEN "returned" ELSE "sleep"

\* `select { case <-ctx.Done(): return; default: }` and the call of processPage
WorkerCheck(w) ==
    /\ wpc[w] = "check"
    /\ wpc' = [wpc EXCEPT ![w] = AfterCheck(cancelled)]
    /\ IF AfterCheck(cancelled) # "returned"
       THEN /\ fetched' = fetched \cup {RequestURL(cfg, wurl[w])}
            /\ UNCHANGED <<wurl, widx>>
       ELSE /\ fetched' = fetched
            /\ wurl' = [wurl EXCEPT ![w] = <<>>]
            /\ widx' = [widx EXCEPT ![w] = 0]
    /\ UNCHANGED <<arg, out, cfg, docs, pc, retErr, cancelled, stack, urls, urlCh, wres, paused,
                   resultCh, resultClosed, done, errCount, results, cur, files,
                   collected, resp>>

\* fetcher.New: delay = delayMS milliseconds
FetcherDelay(c) == c.DelayMS

\* Fetch: time.Sleep(f.delay) returns
WorkerSleep(w) ==
    /\ wpc[w] = "sleep"
    /\ paused' = [paused EXCEPT ![w] = <<FetcherDelay(cfg)>>]
    /\ wpc' = [wpc EXCEPT ![w] = "request"]
    /\ UNCHANGED <<arg, out, cfg, docs, pc, retErr, cancelled, stack, urls, urlCh, wurl, wres,
                   widx, resultCh, resultClosed, done, errCount, results, cur, files,
                   fetched, collected, resp>>

\* Fetch: the request completes; processPage runs to its return
WorkerRequest(w) ==
    /\ wpc[w] = "request"
    /\ wres' = [wres EXCEPT ![w] = processPage(cfg, wurl[w], cancelled, resp[wurl[w]])]
    /\ wpc' = [wpc EXCEPT ![w] = "send"]
    /\ UNCHANGED <<arg, out, cfg, docs, pc, retErr, cancelled, stack, urls, urlCh, wurl, widx,
                   paused, resultCh, resultClosed, done, errCount, results, cur,
                   files, fetched, collected, resp>>

\* mutant: a non-blocking send, the result is dropped when the buffer is full
WorkerSend_Drop(w) ==
    /\ wpc[w] = "send"
    /\ resultCh' = IF Len(resultCh) < ResultCap THEN Append(resultCh, wres[w]) ELSE resultCh
    /\ wpc' = [wpc EXCEPT ![w] = "range"]
    /\ wres' = [wres EXCEPT ![w] = NoResult]
    /\ wurl' = [wurl EXCEPT ![w] = <<>>]
    /\ widx' = [widx EXCEPT ![w] = 0]
    /\ paused' = [paused EXCEPT ![w] = <<>>]
    /\ UNCHANGED <<arg, out, cfg, docs, pc, retErr, cancelled, stack, urls, urlCh, resultClosed,
                   done, errCount, results, cur, files, fetched, collected, resp>>

\* mutant: the worker returns after sending a failed page's result
WorkerSend_StopOnError(w) ==
    /\ wpc[w] = "send"
    /\ Len(resultCh) < ResultCap
    /\ resultCh' = Append(resultCh, wres[w])
    /\ wpc' = [wpc EXCEPT ![w] = IF wres[w].Err # "nil" THEN "returned" ELSE "range"]
    /\ wres' = [wres EXCEPT ![w] = NoResult]
    /\ wurl' = [wurl EXCEPT ![w] = <<>>]
    /\ widx' = [widx EXCEPT ![w] = 0]
    /\ paused' = [paused EXCEPT ![w] = <<>>]
    /\ UNCHANGED <<arg, out, cfg, docs, pc, retErr, cancelled, stack, urls, urlCh, resultClosed,
                   done, errCount, results, cur, files, fetched, collected, resp>>

\* `resultCh <- result`, blocking while the buffer is full
WorkerSend(w) ==
    /\ wpc[w] = "send"
    /\ Len(resultCh) < ResultCap
    /\ resultCh' = Append(resultCh, wres[w])
    /\ wpc' = [wpc EXCEPT ![w] = "range"]
    /\ wres' = [wres EXCEPT ![w] = NoResult]
    /\ wurl' = [wurl EXCEPT ![w] = <<>>]
    /\ widx' = [widx EXCEPT ![w] = 0]
    /\ paused' = [paused EXCEPT ![w] = <<>>]
    /\ UNCHANGED <<arg, out, cfg, docs, pc, retErr, cancelled, stack, urls, urlCh, resultClosed,
                   done, errCount, results, cur, files, fetched, collected, resp>>

\* mutant: the channel is closed once the queue is empty, without wg.Wait()
CloseResults_NoWait ==
    /\ pc \in {"collect", "write"}
    /\ resultClosed = 0
    /\ urlCh = <<>>
    /\ resultClosed' = resultClosed + 1
    /\ UNCHANGED <<arg, out, cfg, docs, pc, retErr, cancelled, stack, urls, urlCh, wpc, wurl, wres,
                   widx, paused, resultCh, done, errCount, results, cur, files,
                   fetched, collected, resp>>

\* `wg.Wait(); close(resultCh)` of the closing goroutine
CloseResults ==
    /\ pc \in {"collect", "write"}
    /\ resultClosed = 0
    /\ \A w \in 1..cfg.Concurrency : wpc[w] = "returned"
    /\ resultClosed' = resultClosed + 1
    /\ UNCHANGED <<arg, out, cfg, docs, pc, retErr, cancelled, stack, urls, urlCh, wpc, wurl, wres,
                   widx, paused, resultCh, done, errCount, results, cur, files,
                   fetched, collected, resp>>

(***************************************************************************)
(* The collector of pipeline.Run, writer.WriteMarkdown, WriteSingleFile    *)
(***************************************************************************)
\* mutant: the collector starts to receive only after every worker returned
CollectRecv_AfterWait ==
    /\ pc = "collect"
    /\ resultCh # <<>>
    /\ \A w \in 1..cfg.Concurrency : wpc[w] = "returned"
    /\ resultCh' = Tail(resultCh)
    /\ collected' = Append(collected, Head(resultCh))
    /\ done' = done + 1
    /\ IF Head(resultCh).Err # "nil"
       THEN /\ errCount' = errCount + 1
            /\ cur' = NoResult
            /\ pc' = "collect"
       ELSE /\ errCount' = errCount
            /\ cur' = Head(resultCh)
            /\ pc' = "write"
    /\ UNCHANGED <<arg, out, cfg, docs, retErr, cancelled, stack, urls, urlCh, wpc, wurl, wres,
                   widx, paused, resultClosed, results, files, fetched, resp>>

\* `for result := range resultCh`: receive, count, and the error branch
CollectRecv ==
    /\ pc = "collect"
    /\ resultCh # <<>>
    /\ resultCh' = Tail(resultCh)
    /\ collected' = Append(collected, Head(resultCh))
    /\ done' = done + 1
    /\ IF Head(resultCh).Err # "nil"
       THEN /\ errCount' = errCount + 1
            /\ cur' = NoResult
            /\ pc' = "collect"
       ELSE /\ errCount' = errCount
            /\ cur' = Head(resultCh)
            /\ pc' = "write"
    /\ UNCHANGED <<arg, out, cfg, docs, retErr, cancelled, stack, urls, urlCh, wpc, wurl, wres,
                   widx, paused, resultClosed, results, files, fetched, resp>>

\* mutant: an existing file is kept
WriteFile_KeepExisting(fs, path, content) ==
    [p \in DOMAIN fs \cup {path} |-> IF p = path /\ p \notin DOMAIN fs THEN content ELSE fs[p]]

\* the file system after os.WriteFile(path, content)
WriteFile(fs, path, content) ==
    [p \in DOMAIN fs \cup {path} |-> IF p = path THEN content ELSE fs[p]]

\* mutant: a failed write is logged but not counted
CollectWrite_DropFailed ==
    /\ pc = "write"
    /\ \E writeOK \in BOOLEAN :
        IF writeOK
        THEN /\ files' = WriteFile(files, URLToFilePath(cfg.OutputDir, cur.URL), cur.Markdown)
             /\ results' = Append(results,
                    [URL |-> cur.URL, Title |-> cur.Title, Markdown |-> cur.Markdown])
             /\ errCount' = errCount
        ELSE /\ errCount' = errCount
             /\ UNCHANGED <<files, results>>
    /\ pc' = "collect"
    /\ cur' = NoResult
    /\ UNCHANGED <<arg, out, cfg, docs, retErr, cancelled, stack, urls, urlCh, wpc, wurl, wres,
                   widx, paused, resultCh, resultClosed, done, fetched, collected,
                   resp>>

\* writer.WriteMarkdown (MkdirAll or WriteFile may fail) and the rest of the
\* loop body
CollectWrite ==
    /\ pc = "write"
    /\ \E writeOK \in BOOLEAN :
        IF writeOK
        THEN /\ files' = WriteFile(files, URLToFilePath(cfg.OutputDir, cur.URL), cur.Markdown)
             /\ results' = Append(results,
                    [URL |-> cur.URL, Title |-> cur.Title, Markdown |-> cur.Markdown])
             /\ errCount' = errCount
        ELSE /\ errCount' = errCount + 1
             /\ UNCHANGED <<files, results>>
    /\ pc' = "collect"
    /\ cur' = NoResult
    /\ UNCHANGED <<arg, out, cfg, docs, retErr, cancelled, stack, urls, urlCh, wpc, wurl, wres,
                   widx, paused, resultCh, resultClosed, done, fetched, collected,
                   resp>>

\* mutant: the loop ends as soon as resultCh is empty
CollectEnd_NoClose ==
    /\ pc = "collect"
    /\ resultCh = <<>>
    /\ pc' = "single"
    /\ UNCHANGED <<arg, out, cfg, docs, retErr, cancelled, stack, urls, urlCh, wpc, wurl, wres,
                   widx, paused, resultCh, resultClosed, done, errCount, results, cur,
                   files, fetched, collected, resp>>

\* the range loop ends: resultCh is closed and drained
CollectEnd ==
    /\ pc = "collect"
    /\ resultCh = <<>>
    /\ resultClosed > 0
    /\ pc' = "single"
    /\ UNCHANGED <<arg, out, cfg, docs, retErr, cancelled, stack, urls, urlCh, wpc, wurl, wres,
                   widx, paused, resultCh, resultClosed, done, errCount, results, cur,
                   files, fetched, collected, resp>>

(***************************************************************************)
(* writer.slugify and the anchors of WriteSingleFile                       *)
(***************************************************************************)
\* 'a'..'z', 'A'..'Z' and '0'..'9'
LowerLetters ==
    <<"a", "b", "c", "d", "e", "f", "g", "h", "i", "j", "k", "l", "m",
      "n", "o", "p", "q", "r", "s", "t", "u", "v", "w", "x", "y", "z">>

UpperLetters ==
    <<"A", "B", "C", "D", "E", "F", "G", "H", "I", "J", "K", "L", "M",
      "N", "O", "P", "Q", "R", "S", "T", "U", "V", "W", "X", "Y", "Z">>

DigitChars ==
    <<"0", "1", "2", "3", "4", "5", "6", "7", "8", "9">>

LowerASCII == {LowerLetters[i] : i \in 1..Len(LowerLetters)}
Digits == {DigitChars[i] : i \in 1..Len(DigitChars)}

\* strings.ToLower, character by character; U+00C9 (E with acute) stands for
\* the letters outside ASCII
ToLowerChar(c) ==
    IF \E i \in 1..Len(UpperLetters) : UpperLetters[i] = c
    THEN LowerLetters[CHOOSE i \in 1..Len(UpperLetters) : UpperLetters[i] = c]
    ELSE IF c = "U+00C9" THEN "U+00E9" ELSE c

ToLower(s) == [i \in 1..Len(s) |-> ToLowerChar(s[i])]

\* the function given to strings.Map: a-z, 0-9, space and hyphen are kept
Kept(c) == c \in LowerASCII \cup Digits \cup {" ", "-"}

\* strings.ReplaceAll(s, "--", "-"): one pass from the left over the
\* non-overlapping pairs
RECURSIVE ReplaceDashPairs(_)
ReplaceDashPairs(s) ==
    IF Len(s) < 2 THEN s
    ELSE IF s[1] = "-" /\ s[2] = "-" THEN <<"-">> \o ReplaceDashPairs(SubSeq(s, 3, Len(s)))
    ELSE <<s[1]>> \o ReplaceDashPairs(Tail(s))

\* `for strings.Contains(s, "--") { s = strings.ReplaceAll(s, "--", "-") }`
RECURSIVE CollapseDashes(_)
CollapseDashes(s) ==
    IF Contains(s, <<"-", "-">>) THEN CollapseDashes(ReplaceDashPairs(s)) ELSE s

\* mutant: the hyphens at the ends are kept
slugify_NoTrim(s) ==
    LET kept == SelectSeq(ToLower(s), Kept)
        dashed == [i \in 1..Len(kept) |-> IF kept[i] = " " THEN "-" ELSE kept[i]]
    IN  CollapseDashes(dashed)

slugify(s) ==
    LET kept == SelectSeq(ToLower(s), Kept)
        dashed == [i \in 1..Len(kept) |-> IF kept[i] = " " THEN "-" ELSE kept[i]]
    IN  TrimLeft(TrimRight(CollapseDashes(dashed), {"-"}), {"-"})

\* fmt.Sprintf("%d", n) for the page numbers that occur here
RECURSIVE Decimal(_)
Decimal(n) == IF n < 10 THEN <<DigitChars[n + 1]>>
              ELSE Decimal(n \div 10) \o <<DigitChars[(n % 10) + 1]>>

\* the anchor of the page at index i (1-based here; the code's i + 1)
Anchor(title, i) ==
    IF slugify(title) = <<>> THEN <<"p", "a", "g", "e", "-">> \o Decimal(i)
    ELSE slugify(title)

\* mutant: an empty title is shown as it is
TitleOrURL_NoFallback(p) == p.Title

\* `title := p.Title; if title == "" { title = p.URL }`
TitleOrURL(p) == IF p.Title = <<>> THEN p.URL ELSE p.Title

\* the text WriteSingleFile builds: the index entries with their anchors,
\* then the sections
SingleFileContent(pages) ==
    [index |-> [i \in 1..Len(pages) |-> TitleOrURL(pages[i])],
     anchors |-> [i \in 1..Len(pages) |-> Anchor(pages[i].Title, i)],
     sections |-> [i \in 1..Len(pages) |->
                      [heading |-> TitleOrURL(pages[i]), source |-> pages[i].URL,
                       body |-> pages[i].Markdown]]]

\* mutant: any error fails the run
FinalError_AnyError(nResults, nErr) == IF nErr > 0 THEN "all pages failed" ELSE "nil"

\* Run's return value after the loop, lines 143-147
FinalError(nResults, nErr) == IF nResults = 0 /\ nErr > 0 THEN "all pages failed" ELSE "nil"

\* Run, lines 135-147: the aggregate file (its write may fail) and the return
SingleAndReturn ==
    /\ pc = "single"
    /\ \E writeOK \in BOOLEAN :
        IF cfg.SingleFile /\ Len(results) > 0
        THEN IF writeOK
             THEN /\ files' = WriteFile(files, SingleFilePath(cfg.OutputDir),
                                        SingleFileContent(results))
                  /\ retErr' = FinalError(Len(results), errCount)
             ELSE /\ files' = files
                  /\ retErr' = "single file"
        ELSE /\ files' = files
             /\ retErr' = FinalError(Len(results), errCount)
    /\ pc' = "exit"
    /\ UNCHANGED <<arg, out, cfg, docs, cancelled, stack, urls, urlCh, wpc, wurl, wres, widx,
                   paused, resultCh, resultClosed, done, errCount, results, cur,
                   fetched, collected, resp>>

Next ==
    \/ RunStart
    \/ Cancel
    \/ SitemapFetch
    \/ SitemapRecurse
    \/ SitemapReturn
    \/ FilterStep
    \/ CleanAndFanOut
    \/ StartWorker
    \/ \E w \in Workers : WorkerRange(w)
    \/ \E w \in Workers : WorkerCheck(w)
    \/ \E w \in Workers : WorkerSleep(w)
    \/ \E w \in Workers : WorkerRequest(w)
    \/ \E w \in Workers : WorkerSend(w)
    \/ CloseResults
    \/ CollectRecv
    \/ CollectWrite
    \/ CollectEnd
    \/ SingleAndReturn

Spec == Init /\ [][Next]_vars


(***************************************************************************)
(* main: the exit status                                                   *)
(***************************************************************************)
\* `if err := cmd.Execute(); err != nil { os.Exit(1) }`
ExitCode(err) == IF err # "nil" THEN 1 ELSE 0

(***************************************************************************)
(* Properties                                                              *)
(***************************************************************************)
\* the collection loop of Run has ended
LoopEnded == pc = "single" \/ (pc = "exit" /\ resultClosed > 0)

IsUnique(us) == \A i, j \in 1..Len(us) : us[i] = us[j] => i = j

\* how many entries of a sequence of records carry the URL u
CountURL(rs, u) == Cardinality({j \in 1..Len(rs) : rs[j].URL = u})

CountIn(us, u) == Cardinality({j \in 1..Len(us) : us[j] = u})

\* C1: in a run that is never cancelled, with N unique queued URLs and
\* 1 <= concurrency <= N, the collector has received exactly N outcomes when
\* its loop ends, and every queued URL is the URL of exactly one of them.
C1_ExactlyOnce ==
    (LoopEnded /\ ~cancelled /\ IsUnique(urls)
        /\ 1 <= cfg.Concurrency /\ cfg.Concurrency <= Len(urls))
    => /\ Len(collected) = Len(urls)
       /\ \A i \in 1..Len(urls) : CountURL(collected, urls[i]) = 1

\* two workers, two pages, one of them failed, collected out of queue order
C1_Witness ==
    /\ LoopEnded /\ ~cancelled /\ IsUnique(urls)
    /\ cfg.Concurrency = 2 /\ Len(urls) = 2
    /\ Len(collected) = 2
    /\ collected[1].URL = urls[2]
    /\ collected[1].Err # "nil"
    /\ collected[2].Err = "nil"


\* the outcome of a page whose request is answered while ctx is not done:
\* an error of the kind of its own answer, or its title and Markdown
OwnOutcome(u) ==
    LET broken == IF cfg.FetchMD # <<>> THEN resp[u] = "fetchErr" ELSE resp[u] # "ok"
        kind == IF resp[u] = "fetchErr" THEN "fetch"
                ELSE IF resp[u] = "badHTML" THEN "extraction" ELSE "conversion"
    IN  IF broken THEN [URL |-> u, Title |-> <<>>, Markdown |-> <<>>, Err |-> kind]
        ELSE LET md == CleanMarkdown(IF cfg.FetchMD # <<>> THEN PageRawMD(u)
                                      ELSE PageConverted(u))
                 title == IF cfg.FetchMD # <<>> THEN ExtractTitleFromMarkdown(md)
                          ELSE ExtractTitle(u)
             IN  [URL |-> u, Title |-> title,
                  Markdown |-> Frontmatter(title, u) \o CleanMarkdown(md), Err |-> "nil"]

SeqToBag(sq) == BagOfAll(LAMBDA i : sq[i], SetToBag(1..Len(sq)))

\* C2: a page's failure is its own outcome (Err set, of the kind of the failed
\* step) and changes nothing else: in a run that is not cancelled every
\* outcome a worker produces is the one its own page's answer determines, and
\* when the loop ends the outcomes are, entry by queue entry, those own
\* outcomes - the pages queued after a failed one included.
C2_FailureIsolated ==
    ~cancelled =>
        /\ \A w \in Workers : wpc[w] = "send" => wres[w] = OwnOutcome(wurl[w])
        /\ \A i \in 1..Len(resultCh) : resultCh[i] = OwnOutcome(resultCh[i].URL)
        /\ \A i \in 1..Len(collected) : collected[i] = OwnOutcome(collected[i].URL)
        /\ LoopEnded =>
              SeqToBag(collected) = SeqToBag([i \in 1..Len(urls) |-> OwnOutcome(urls[i])])

\* one worker: the first page failed in extraction, the page queued after it
\* was processed and succeeded
C2_Witness ==
    /\ LoopEnded /\ ~cancelled
    /\ cfg.Concurrency = 1 /\ Len(urls) >= 2
    /\ Len(collected) = Len(urls)
    /\ \E i \in 1..Len(collected) :
          /\ collected[i].Err \in {"fetch", "extraction", "conversion"}
          /\ \E j \in (i + 1)..Len(collected) : collected[j].Err = "nil"


\* Run has returned and the root sitemap had resolved
ReturnedAfterResolve ==
    /\ pc = "exit"
    /\ retErr \notin {"sitemap", "concurrency must be at least 1", "delay must be non-negative"}

\* every collected outcome is counted once: as an error (its own, or the
\* failure of its write) or as a written page, and only collected successes
\* are written
CountedOnce ==
    /\ (pc # "write" => done = Len(results) + errCount)
    /\ (pc = "write" => done = Len(results) + errCount + 1)
    /\ done = Len(collected)
    /\ Cardinality({i \in 1..Len(collected) : collected[i].Err # "nil"}) <= errCount
    /\ \A i \in 1..Len(results) :
          \E j \in 1..Len(collected) :
              /\ collected[j].Err = "nil"
              /\ collected[j].URL = results[i].URL

\* C3 as stated: after the root sitemap resolved, Run returns the page-level
\* error iff outcomes were collected, all of them ended as errors and nothing
\* was written; and with one page written, or no page at all, Run returns nil
\* and the process exits 0.
C3_AsClaimed ==
    /\ CountedOnce
    /\ ReturnedAfterResolve =>
          /\ (retErr = "all pages failed")
                <=> (done > 0 /\ errCount = done /\ Len(results) = 0)
          /\ (Len(results) >= 1 \/ Len(urls) = 0)
                => (retErr = "nil" /\ ExitCode(retErr) = 0)

\* C3 amended: as C3_AsClaimed, but with a page written Run returns nil only
\* if the aggregate write did not fail: when single-file is on and
\* WriteSingleFile fails, Run returns that error although pages were written.
C3_RunResult ==
    /\ CountedOnce
    /\ ReturnedAfterResolve =>
          /\ (retErr = "all pages failed")
                <=> (done > 0 /\ errCount = done /\ Len(results) = 0)
          /\ (Len(results) >= 1 \/ Len(urls) = 0)
                => \/ retErr = "nil" /\ ExitCode(retErr) = 0
                   \/ /\ retErr = "single file" /\ ExitCode(retErr) = 1
                      /\ cfg.SingleFile /\ Len(results) >= 1
                      /\ SingleFilePath(cfg.OutputDir) \notin DOMAIN files
          /\ (Len(results) >= 1 /\ SingleFilePath(cfg.OutputDir) \in DOMAIN files)
                => retErr = "nil"
          /\ (Len(results) >= 1 /\ ~cfg.SingleFile) => retErr = "nil"

\* all pages failed, one of them by the failure of its write
C3_Witness ==
    /\ ReturnedAfterResolve
    /\ retErr = "all pages failed"
    /\ errCount = 2 /\ Len(results) = 0
    /\ \E i \in 1..Len(collected) : collected[i].Err = "nil"
    /\ \E i \in 1..Len(collected) : collected[i].Err # "nil"


(***************************************************************************)
(* Sitemap resolution                                                      *)
(***************************************************************************)
\* the document at u can be fetched and parsed while ctx is not done
DocOK(u) ==
    /\ DocAt(u).status = "ok"
    /\ DocAt(u).root \in {"sitemapindex", "urlset"}

\* the non-empty <loc> texts of the document at u, in document order
Locs(u) == SelectSeq(DocAt(u).locs, LAMBDA l : l # <<>>)

RECURSIVE Flatten(_)
\* the flattened URL sequence of the document at u: a page list's URLs; an
\* index's sub-sitemaps in listed order, depth first, the failing ones left out
Flatten(u) ==
    IF DocAt(u).root = "urlset" THEN Locs(u)
    ELSE Concat([k \in 1..Len(Locs(u)) |->
                    IF DocOK(Locs(u)[k]) THEN Flatten(Locs(u)[k]) ELSE <<>>])

\* C4: while ctx is not done, every call of fetchSitemapURLs that has parsed
\* an index holds, after handling its first i-1 sub-sitemaps, exactly the
\* concatenation of the flattened URLs of those among them that resolved; a
\* failed one contributes nothing, does not end the loop and is no error of
\* the call: only the failure of the root document makes Run return the
\* sitemap error. This holds for the frames at every depth.
C4_FailedSubSkipped ==
    ~cancelled =>
        /\ \A d \in 1..Len(stack) :
              stack[d].phase = "loop" =>
                  /\ DocOK(stack[d].url)
                  /\ stack[d].i <= Len(Locs(stack[d].url)) + 1
                  /\ stack[d].urls =
                        (IF DocAt(stack[d].url).root = "urlset"
                         THEN Locs(stack[d].url) ELSE <<>>)
                        \o Concat([k \in 1..(stack[d].i - 1) |->
                              IF DocOK(stack[d].subs[k])
                              THEN Flatten(stack[d].subs[k]) ELSE <<>>])
        /\ (pc = "exit" /\ retErr = "sitemap") => ~DocOK(EntryURL)
        /\ (pc = "filter" /\ DocOK(EntryURL)) => urls = Flatten(EntryURL)

\* a nested index (depth 2) is past a failed sub-sitemap and has appended the
\* URLs of the sibling listed after it
C4_Witness ==
    /\ ~cancelled
    /\ Len(stack) = 2
    /\ stack[2].phase = "loop"
    /\ stack[2].i = 3
    /\ ~DocOK(stack[2].subs[1])
    /\ DocOK(stack[2].subs[2])
    /\ stack[2].urls = Flatten(stack[2].subs[2])
    /\ stack[2].urls # <<>>


NoFilter == cfg.Include = <<>> /\ cfg.Exclude = <<>>

\* C6: while ctx is not done, the list fetchSitemapURLs returns to Run is the
\* depth-first, listed-order flattening of the entry document, duplicates
\* kept; without filter patterns that list is what the work queue holds
\* before the first worker starts, and a URL occurring m times in it has m
\* outcomes when the collector's loop ends.
C6_OrderKeptNoDedup ==
    ~cancelled =>
        /\ pc = "filter" => urls = Flatten(EntryURL)
        /\ (NoFilter /\ pc = "clean") => urls = Flatten(EntryURL)
        /\ (NoFilter /\ pc = "spawn" /\ Started = {}) => urlCh = Flatten(EntryURL)
        /\ (NoFilter /\ LoopEnded) =>
              \A u \in PageSet : CountURL(collected, u) = CountIn(Flatten(EntryURL), u)

\* an index whose sub-sitemaps list the same URL more than once: the URL was
\* queued and collected as often as it is listed, and the list kept the order
\* of a sub-sitemap listed before a nested index
C6_Witness ==
    /\ ~cancelled /\ NoFilter /\ LoopEnded
    /\ DocAt(EntryURL).root = "sitemapindex"
    /\ \E u \in PageSet :
          /\ CountIn(urls, u) >= 3
          /\ CountURL(collected, u) = CountIn(urls, u)
    /\ \E u \in PageSet : CountIn(urls, u) = 1
    /\ Len(collected) = Len(urls)


FatalErrors == {"sitemap", "concurrency must be at least 1", "delay must be non-negative"}

\* C5: an invalid configuration (concurrency < 1 or delay < 0) makes run
\* return an error at once, and a root sitemap that cannot be fetched or
\* parsed makes Run return the sitemap error; whenever one of these errors
\* was returned no worker was started, nothing was queued or collected, no
\* URL other than the entry sitemap was requested, and the output directory
\* is as it was before the run (nothing written, nothing removed).
C5_FatalAbortsEarly ==
    /\ (pc # "run" /\ (cfg.Concurrency < 1 \/ cfg.DelayMS < 0))
          => /\ pc = "exit"
             /\ retErr \in {"concurrency must be at least 1", "delay must be non-negative"}
             /\ fetched = {}
    /\ (cfg.Concurrency >= 1 /\ cfg.DelayMS >= 0 /\ ~DocOK(EntryURL)
            /\ pc \notin {"run", "resolve"})
          => (pc = "exit" /\ retErr = "sitemap")
    /\ retErr \in FatalErrors
          => /\ pc = "exit"
             /\ ExitCode(retErr) = 1
             /\ \A w \in Workers : wpc[w] = "none"
             /\ urlCh = <<>> /\ resultCh = <<>> /\ collected = <<>>
             /\ fetched \subseteq {EntryURL}
             /\ files = InitialFiles

\* the root document has an unknown root element, --clean was given: Run
\* returned the sitemap error and the old file is still there
C5_Witness ==
    /\ pc = "exit"
    /\ retErr = "sitemap"
    /\ ~cancelled
    /\ cfg.Clean
    /\ DocAt(EntryURL).status = "ok"
    /\ fetched = {EntryURL}
    /\ OldFile \in DOMAIN files


\* the filter predicate of the configuration
InIncluded(u) == \E i \in 1..Len(cfg.Include) : Contains(u, cfg.Include[i])

InExcluded(u) == \E i \in 1..Len(cfg.Exclude) : Contains(u, cfg.Exclude[i])

Survives(u) == (cfg.Include = <<>> \/ InIncluded(u)) /\ ~InExcluded(u)

\* a worker holds the URL u
Held(u) == \E w \in Workers : wurl[w] = u \/ wres[w].URL = u

C8_NoNewPageAfterCancel ==
    [][cancelled =>
          \A w \in Workers :
              /\ wpc[w] = "check" => wpc'[w] \in {"check", "returned"}
              /\ wpc'[w] = "sleep" => wpc[w] = "sleep"
              /\ wpc'[w] = "request" => wpc[w] \in {"sleep", "request"}]_vars

\* after a page was collected the signal fired; a worker has returned at its
\* check although the queue still holds URLs
C8_Witness ==
    /\ cancelled
    /\ done >= 1
    /\ urlCh # <<>>
    /\ \E w \in Workers : wpc[w] = "returned"

\* the outcome of a page whose request fails
FetchFailure(u) == [URL |-> u, Title |-> <<>>, Markdown |-> <<>>, Err |-> "fetch"]

C10_PauseBeforeRequest ==
    \A w \in Workers :
        /\ wpc[w] = "request" => paused[w] = <<cfg.DelayMS>>
        /\ wpc[w] \in {"check", "sleep"} => paused[w] = <<>>
        /\ wpc[w] = "sleep" => ENABLED WorkerSleep(w)

\* two workers have each paused for their first page and have their requests
\* in flight at the same time
C10_Witness ==
    /\ done = 0 /\ resultCh = <<>>
    /\ Len(urls) - Len(urlCh) = 2
    /\ \A w \in 1..2 : wpc[w] = "request" /\ paused[w] = <<cfg.DelayMS>>

(***************************************************************************)
(* Functions applied on their own: the variable arg holds the input, out   *)
(* the results of the applications so far; the crawl itself does not run.  *)
(***************************************************************************)
\* the crawl's variables while a function is applied on its own
NoCrawl ==
    /\ InitRun
    /\ cfg = Config(1, 0, FALSE, FALSE, <<>>, <<>>, <<>>)
    /\ docs = World(FailDoc, FailDoc, FailDoc, FailDoc)
    /\ resp = SiteOf({})

CrawlVars == <<cfg, docs, pc, retErr, cancelled, stack, urls, urlCh, wpc, wurl, wres,
               widx, paused, resultCh, resultClosed, done, errCount, results, cur,
               files, fetched, collected, resp>>

\* the sequences over S of length 0..n
SeqsUpTo(S, n) == UNION {[1..k -> S] : k \in 0..n}

(***************************************************************************)
(* writer.URLToFilePath on its own                                         *)
(***************************************************************************)
\* URL paths are built from at most MaxPieces pieces after the leading slash
MaxPieces == 3

PathPieces == { <<"/">>, <<"a">>, <<".", ".">>, <<".", "h", "t", "m", "l">>,
                <<".", "h", "t", "m">>, <<".", "p", "h", "p">> }

DocsDir == <<"/", "d", "o", "c", "s", "/">>
DocsIndexHTML == DocsDir \o <<"i", "n", "d", "e", "x", ".", "h", "t", "m", "l">>
BlogHello == <<"/", "b", "l", "o", "g", "/", "h", "e", "l", "l", "o", "-", "w", "o", "r", "l", "d">>

PathInputs ==
    {<<"/">> \o Concat(ps) : ps \in SeqsUpTo(PathPieces, MaxPieces)}
        \cup {DocsDir, DocsIndexHTML, BlogHello}

InitPath == NoCrawl /\ arg \in PathInputs /\ out = <<>>

\* one call URLToFilePath(cfg.OutputDir, arg)
CallURLToFilePath ==
    /\ out = <<>>
    /\ out' = <<URLToFilePath(cfg.OutputDir, arg)>>
    /\ UNCHANGED <<arg, CrawlVars>>

NextPath == CallURLToFilePath

SpecPath == InitPath /\ [][NextPath]_vars

\* the relative path as the claim derives it: leading slash removed, "index"
\* appended to an empty path or one ending in a slash, the one final
\* extension removed when it is .html, .htm or .php, ".md" appended
FinalExtRemoved(p) ==
    IF \E i \in 1..Len(KnownExts) : HasSuffix(p, KnownExts[i])
    THEN TrimSuffix(p, KnownExts[CHOOSE i \in 1..Len(KnownExts) : HasSuffix(p, KnownExts[i])])
    ELSE p

RelativePath(path) ==
    LET p0 == TrimPrefix(path, <<"/">>)
        p1 == IF p0 = <<>> \/ HasSuffix(p0, <<"/">>)
              THEN p0 \o <<"i", "n", "d", "e", "x">> ELSE p0
    IN  FinalExtRemoved(p1) \o <<".", "m", "d">>

\* C11: the file path of a page is the output directory joined with the URL
\* path without its leading slash, with "index" appended when it is empty or
\* ends in a slash, with only the final .html/.htm/.php extension removed,
\* and with ".md" appended; /docs/ and /docs/index.html both give
\* docs/index.md and /blog/hello-world gives blog/hello-world.md.
C11_OnlyFinalExtension ==
    out # <<>> => out[1] = FilepathJoin(cfg.OutputDir, RelativePath(arg))

\* the path /a.php.html has been mapped
C11_Stacked ==
    /\ arg = <<"/", "a", ".", "p", "h", "p", ".", "h", "t", "m", "l">>
    /\ out # <<>>

(***************************************************************************)
(* converter.CleanMarkdown on its own                                      *)
(***************************************************************************)
\* Markdown texts of at most MaxMdLen characters
MaxMdLen == 6

MdChars == {"a", " ", "\t", NL}

MdInputs == SeqsUpTo(MdChars, MaxMdLen)

InitClean == NoCrawl /\ arg \in MdInputs /\ out = <<>>

\* CleanMarkdown applied to the text, then to its own result
CallCleanMarkdown ==
    /\ Len(out) < 2
    /\ out' = Append(out, CleanMarkdown(IF out = <<>> THEN arg ELSE out[Len(out)]))
    /\ UNCHANGED <<arg, CrawlVars>>

NextClean == CallCleanMarkdown

SpecClean == InitClean /\ [][NextClean]_vars

\* C12: CleanMarkdown is idempotent: for every text x, lines made only of
\* spaces or tabs included, CleanMarkdown(CleanMarkdown(x)) = CleanMarkdown(x).
C12_Idempotent == Len(out) = 2 => out[2] = out[1]

\* the Markdown of a page before processPage's normalisation
SourceMarkdown(u) == IF cfg.FetchMD # <<>> THEN PageRawMD(u) ELSE PageConverted(u)

\* the URLs of the crawl that map to the file path of u
SamePath(u) ==
    {urls[i] : i \in {j \in 1..Len(urls) :
        URLToFilePath(cfg.OutputDir, urls[j]) = URLToFilePath(cfg.OutputDir, u)}}

\* the content is a metadata block opened by "---", holding the line
\* "source_url: <u>", closed by "---" and a blank line, then the body
PageFileOf(content, u, body) ==
    /\ HasPrefix(content, <<"---\n">>)
    /\ Contains(content, <<"\n", "source_url: ">> \o u \o <<"\n">>)
    /\ HasSuffix(content, <<"---\n", "\n">> \o body)
    /\ Len(SelectSeq(content, LAMBDA x : x = "source_url: ")) = 1

\* C13: every page with a success outcome whose write succeeded has a file at
\* URLToFilePath(outputDir, url); when no other URL of the crawl maps to that
\* path the file starts with the "---" metadata block whose source_url line
\* carries exactly the page's URL, then a blank line, then the normalised
\* Markdown body.  A page whose outcome is an error has no file, unless a
\* written page maps to the same path.
C13_PageFiles ==
    /\ \A i \in 1..Len(results) :
          LET u == results[i].URL
              path == URLToFilePath(cfg.OutputDir, u)
              body == CleanMarkdown(CleanMarkdown(SourceMarkdown(u)))
          IN  /\ path \in DOMAIN files
              /\ SamePath(u) = {u} =>
                    /\ CleanMarkdown(body) = body
                    /\ PageFileOf(files[path], u, body)
    /\ \A i \in 1..Len(collected) :
          LET path == URLToFilePath(cfg.OutputDir, collected[i].URL) IN
          (collected[i].Err # "nil" /\ path \in DOMAIN files)
              => \E j \in 1..Len(results) :
                    URLToFilePath(cfg.OutputDir, results[j].URL) = path

\* a raw-Markdown crawl has ended with the file of a page whose served text
\* held a whitespace-only line, and with a page that failed
C13_Witness ==
    /\ pc = "exit" /\ retErr = "nil"
    /\ cfg.FetchMD # <<>>
    /\ \E i \in 1..Len(results) : results[i].URL = PageA
    /\ \E i \in 1..Len(collected) : collected[i].Err # "nil"
    /\ CleanMarkdown(PageRawMD(PageA)) # CleanMarkdown(CleanMarkdown(PageRawMD(PageA)))

\* a is b with some entries left out
RECURSIVE IsSubseq(_, _)
IsSubseq(a, b) ==
    IF a = <<>> THEN TRUE
    ELSE IF b = <<>> THEN FALSE
    ELSE IF Head(a) = Head(b) THEN IsSubseq(Tail(a), Tail(b))
    ELSE IsSubseq(a, Tail(b))

\* the URLs of the success outcomes in the order the collector received them
SuccessOrder ==
    LET ok == SelectSeq(collected, LAMBDA r : r.Err = "nil")
    IN  [i \in 1..Len(ok) |-> ok[i].URL]

C15_ClosedOnceAfterWorkers ==
    /\ [](/\ resultClosed <= 1
          /\ resultClosed > 0 => \A w \in 1..cfg.Concurrency : wpc[w] = "returned"
          /\ pc = "single" => resultClosed = 1
          /\ (pc = "exit" /\ wpc[1] # "none") => resultClosed = 1)
    /\ [][/\ resultClosed > 0 => Len(resultCh') <= Len(resultCh)
          /\ resultClosed' >= resultClosed]_vars

\* the channel was closed while outcomes of two workers were still buffered
C15_Witness ==
    /\ resultClosed = 1
    /\ pc = "collect"
    /\ cfg.Concurrency = 2
    /\ Len(resultCh) = 2

\* the workers that hold a page: from the dequeue to the send of its outcome
Busy == {w \in Workers : wpc[w] \in {"check", "sleep", "request", "send"}}

\* how many entries of u have left the queue
Dequeued(u) == CountIn(urls, u) - CountIn(urlCh, u)

\* C16: every entry of the work queue is taken by at most one worker and
\* processed at most once: the workers holding u, the outcomes of u waiting
\* in resultCh and those collected never outnumber the entries of u that left
\* the queue; two workers never hold the same entry; and once filled the queue
\* only loses its head - nothing is put back or retried.
C16_AtMostOnce ==
    /\ [](/\ \A u \in PageSet :
                Cardinality({w \in Busy : wurl[w] = u}) + CountURL(resultCh, u)
                    + CountURL(collected, u) <= Dequeued(u)
          /\ \A v, w \in Busy : widx[v] = widx[w] => v = w
          /\ \A w \in Busy : widx[w] \in 1..(Len(urls) - Len(urlCh)) /\ urls[widx[w]] = wurl[w])
    /\ [][pc \notin {"run", "resolve", "filter", "clean"}
            => urlCh' = urlCh \/ urlCh' = Tail(urlCh)]_vars

\* the same URL is listed twice and both entries are in process at the same
\* time, each with its own worker
C16_Witness ==
    /\ Busy = {1, 2}
    /\ wurl[1] = wurl[2]
    /\ widx[1] # widx[2]

\* C17: exactly cfg.Concurrency workers are started, all taking from the one
\* queue; never more than cfg.Concurrency pages are in process at a time; and
\* while the queue is not empty a worker that is idle can take the next URL
\* (it takes the head of the queue) whatever the other workers are doing.
C17_SharedQueue ==
    /\ [](/\ pc \in {"collect", "write", "single"} => Started = 1..cfg.Concurrency
          /\ Started \subseteq 1..cfg.Concurrency
          /\ Cardinality(Busy) <= cfg.Concurrency
          /\ \A w \in Workers :
                (wpc[w] = "range" /\ urlCh # <<>>) => ENABLED WorkerRange(w))
    /\ [][\A w \in Workers :
            (wpc[w] = "range" /\ wpc'[w] = "check")
                => /\ urlCh # <<>>
                   /\ wurl'[w] = Head(urlCh)
                   /\ urlCh' = Tail(urlCh)]_vars

\* the first worker is still on the first page of the queue while the second
\* worker has delivered the second page and holds the third
C17_Witness ==
    /\ ~cancelled
    /\ cfg.Concurrency = 2
    /\ wpc[1] \in {"sleep", "request"} /\ widx[1] = 1
    /\ wpc[2] \in {"check", "sleep", "request"} /\ widx[2] = 3

\* the index in results of the page written last to the path
LastWritten(path) ==
    CHOOSE i \in 1..Len(results) :
        /\ URLToFilePath(cfg.OutputDir, results[i].URL) = path
        /\ \A j \in (i + 1)..Len(results) :
              URLToFilePath(cfg.OutputDir, results[j].URL) # path

\* C18: when distinct URLs map to the same file path, each of them is written
\* without error (the write over the earlier file adds the page to results
\* and counts no error), the file holds the content of the one the collector
\* wrote last, and each is counted as written and is part of the aggregate.
C18_LastWriteWins ==
    /\ [](/\ \A i \in 1..Len(results) :
                LET path == URLToFilePath(cfg.OutputDir, results[i].URL) IN
                /\ path \in DOMAIN files
                /\ files[path] = results[LastWritten(path)].Markdown
          /\ (pc = "exit" /\ SingleFilePath(cfg.OutputDir) \in DOMAIN files)
                => /\ Len(files[SingleFilePath(cfg.OutputDir)].sections) = Len(results)
                   /\ \A i \in 1..Len(results) :
                         files[SingleFilePath(cfg.OutputDir)].sections[i].source
                             = results[i].URL)
    /\ [][(pc = "write" /\ files' # files)
            => /\ results' = Append(results, [URL |-> cur.URL, Title |-> cur.Title,
                                              Markdown |-> cur.Markdown])
               /\ errCount' = errCount
               /\ files'[URLToFilePath(cfg.OutputDir, cur.URL)] = cur.Markdown]_vars

\* /d/ and /d/index.html were both written; the file o/d/index.md holds the
\* page listed second in the sitemap, written last, although the entry listed
\* third was written before it; all three are in the aggregate
C18_Witness ==
    /\ pc = "exit" /\ retErr = "nil" /\ errCount = 0
    /\ Len(results) = 3
    /\ results[3].URL = PageF
    /\ results[1].URL = PageE /\ results[2].URL = PageE
    /\ files[URLToFilePath(cfg.OutputDir, PageE)] = results[3].Markdown
    /\ results[3].Markdown # results[1].Markdown
    /\ SingleFilePath(cfg.OutputDir) \in DOMAIN files
    /\ Len(files[SingleFilePath(cfg.OutputDir)].sections) = 3

(***************************************************************************)
(* sitemap.Parse on its own                                                *)
(***************************************************************************)
\* documents with at most MaxLocs entries
MaxLocs == 2

\* root elements: the two sitemap variants, other XML, and text that is not
\* XML at all
Roots == {"sitemapindex", "urlset", "html", "rss", ""}

ParseInputs ==
    {MixedDoc("ok", r, ls, other) :
        r \in Roots, ls \in SeqsUpTo({<<>>, SM1, PageA}, MaxLocs),
        other \in {<<>>, <<SM2>>}}

InitParse == NoCrawl /\ arg \in ParseInputs /\ out = <<>>

\* one call Parse(data)
CallParse ==
    /\ out = <<>>
    /\ out' = <<Parse(arg)>>
    /\ UNCHANGED <<arg, CrawlVars>>

NextParse == CallParse

SpecParse == InitParse /\ [][NextParse]_vars

\* C19: Parse takes a document as exactly one variant: as an index whenever
\* its root is sitemapindex (the result holds the sub-sitemap URLs and no page
\* URL), otherwise as a page list (page URLs and no sub-sitemap URL); a result
\* never holds both; a root that is neither sitemapindex nor urlset gives a
\* parse error, not an empty result.
C19_OneVariant ==
    out # <<>> =>
        LET r == out[1]
            locs == SelectSeq(arg.locs, LAMBDA l : l # <<>>)
        IN  /\ arg.root = "sitemapindex"
                  => ~r.err /\ r.SubSitemaps = locs /\ r.PageURLs = <<>>
            /\ arg.root = "urlset"
                  => ~r.err /\ r.PageURLs = locs /\ r.SubSitemaps = <<>>
            /\ arg.root \notin {"sitemapindex", "urlset"} => r.err
            /\ ~(r.PageURLs # <<>> /\ r.SubSitemaps # <<>>)

\* a page list that also holds a <sitemap> entry was parsed
C19_Witness ==
    /\ out # <<>>
    /\ arg.root = "urlset" /\ arg.other # <<>>
    /\ Len(out[1].PageURLs) = 2

(***************************************************************************)
(* extractor.findMainContent                                               *)
(***************************************************************************)
heuristicSelectors ==
    <<"main", "article", "[role=\"main\"]", ".content", ".main-content", "#content",
      ".markdown-body", ".documentation-content", ".docs-content", ".page-content">>

\* the threshold of findMainContent
MinContentLen == 50

\* a character that takes three bytes in UTF-8 (HIRAGANA LETTER A)
HiraganaA == "U+3042"

\* the number of bytes of a character in a Go string
UTF8Width(c) == IF c = HiraganaA THEN 3 ELSE 1

\* len(s) of a Go string: its number of bytes
RECURSIVE ByteLen(_)
ByteLen(s) == IF s = <<>> THEN 0 ELSE UTF8Width(Head(s)) + ByteLen(Tail(s))

\* `len(strings.TrimSpace(s.Text()))` for the text s of a selection
TextLen(s) == ByteLen(TrimSpace(s))

\* a document gives, for each heuristic selector, the elements it matches as
\* the sequence of their texts; doc.Find(sel).First() is the first of them
First(doc, i) == IF i \in DOMAIN doc /\ doc[i] # <<>> THEN <<doc[i][1]>> ELSE <<>>

\* the loop of findMainContent from the i-th selector on: the selector whose
\* first match is returned, or "body"
RECURSIVE findMainContentFrom(_, _)
findMainContentFrom(doc, i) ==
    IF i > Len(heuristicSelectors) THEN "body"
    ELSE LET s == First(doc, i) IN
         IF Len(s) > 0 /\ TextLen(s[1]) > MinContentLen THEN heuristicSelectors[i]
         ELSE findMainContentFrom(doc, i + 1)

findMainContent(doc) == findMainContentFrom(doc, 1)

\* the documents hold elements for the first MaxSel selectors only
MaxSel == 3

\* n times the character c
Rep(c, n) == [i \in 1..n |-> c]

\* texts around the threshold: 10, 50 and 51 letters, 50 letters inside white
\* space, and 17 three-byte characters (51 bytes)
Texts ==
    { Rep("a", 10), Rep("a", MinContentLen), Rep("a", MinContentLen + 1),
      <<" ">> \o Rep("a", MinContentLen) \o <<NL>>, Rep(HiraganaA, 17) }

\* per selector: no element, or one element with one of the texts
ExtractInputs == [1..MaxSel -> {<<>>} \cup {<<t>> : t \in Texts}]

InitExtract == NoCrawl /\ arg \in ExtractInputs /\ out = <<>>

\* one call findMainContent(doc)
CallFindMainContent ==
    /\ out = <<>>
    /\ out' = <<findMainContent(arg)>>
    /\ UNCHANGED <<arg, CrawlVars>>

NextExtract == CallFindMainContent

SpecExtract == InitExtract /\ [][NextExtract]_vars

\* the candidate passes as the claim has it: it exists and its trimmed text
\* has more than 50 characters
Substantial(doc, i) == doc[i] # <<>> /\ Len(TrimSpace(doc[i][1])) > 50

\* C20: without a selector, findMainContent returns the first candidate of
\* the ordered list whose trimmed text is strictly longer than 50 characters
\* - a candidate of 50 characters or fewer is skipped even when it is main -
\* and the whole body when no candidate passes.
C20_FirstSubstantial ==
    out # <<>> =>
        IF \E i \in 1..MaxSel : Substantial(arg, i)
        THEN LET i == CHOOSE i \in 1..MaxSel :
                        Substantial(arg, i) /\ \A j \in 1..(i - 1) : ~Substantial(arg, j)
             IN  out[1] = heuristicSelectors[i]
        ELSE out[1] = "body"

\* C21: in HTML mode a page whose extraction gave no title gets its title
\* from the first top-level heading of its converted Markdown, so an outcome
\* whose Markdown has such a heading never has an empty title.
C21_TitleFromMarkdown ==
    \A i \in 1..Len(collected) :
        LET r == collected[i] IN
        (/\ cfg.FetchMD = <<>>
         /\ r.Err = "nil"
         /\ ExtractTitleFromMarkdown(CleanMarkdown(PageConverted(r.URL))) # <<>>)
            => r.Title # <<>>

\* an outcome carries an error and nothing else, or Markdown and no error
OnePart(r) ==
    /\ r.Err # "nil" => r.Title = <<>> /\ r.Markdown = <<>>
    /\ r.Markdown # <<>> => r.Err = "nil"
    /\ r.Err # "nil" \/ r.Markdown # <<>>

\* C22: every outcome is built by one worker, sent, and received by the
\* collector exactly once, unchanged; it has either Err set, with empty title
\* and Markdown, or Markdown set and no Err.
C22_OutcomeOnce ==
    /\ [](/\ \A w \in Workers : wpc[w] = "send" => OnePart(wres[w]) /\ wres[w].URL = wurl[w]
          /\ \A i \in 1..Len(resultCh) : OnePart(resultCh[i])
          /\ \A i \in 1..Len(collected) : OnePart(collected[i])
          /\ pc = "write" => cur = collected[Len(collected)]
          /\ LoopEnded => resultCh = <<>>)
    /\ [][/\ \/ resultCh' = resultCh
             \/ /\ resultCh # <<>>
                /\ resultCh' = Tail(resultCh)
                /\ collected' = Append(collected, Head(resultCh))
             \/ \E w \in Workers :
                   /\ wpc[w] = "send" /\ wpc'[w] # "send"
                   /\ resultCh' = Append(resultCh, wres[w])
          /\ \/ collected' = collected
             \/ resultCh # <<>> /\ resultCh' = Tail(resultCh)]_vars

\* the collector has received a failed and a successful outcome, the loop is
\* over and the channel is empty
C22_Witness ==
    /\ LoopEnded /\ resultCh = <<>>
    /\ \E i, j \in 1..Len(collected) :
          /\ collected[i].Err # "nil"
          /\ collected[j].Err = "nil" /\ collected[j].Markdown # <<>>

(***************************************************************************)
(* The anchor of an index entry on its own                                 *)
(***************************************************************************)
\* titles of at most MaxTitleLen characters
MaxTitleLen == 3

TitleChars == {"A", "b", "1", " ", "-", "!", "U+00C9"}

AnchorInputs ==
    {[title |-> t, i |-> i] : t \in SeqsUpTo(TitleChars, MaxTitleLen), i \in 1..2}

InitAnchor == NoCrawl /\ arg \in AnchorInputs /\ out = <<>>

\* the anchor WriteSingleFile gives the page at position arg.i
CallAnchor ==
    /\ out = <<>>
    /\ out' = <<Anchor(arg.title, arg.i)>>
    /\ UNCHANGED <<arg, CrawlVars>>

NextAnchor == CallAnchor

SpecAnchor == InitAnchor /\ [][NextAnchor]_vars

\* runs of the character c in s made single
RECURSIVE RunsToOne(_, _)
RunsToOne(s, c) ==
    IF Len(s) < 2 THEN s
    ELSE IF s[1] = c /\ s[2] = c THEN RunsToOne(Tail(s), c)
    ELSE <<s[1]>> \o RunsToOne(Tail(s), c)

PageN(i) == <<"p", "a", "g", "e", "-">> \o Decimal(i)

\* the anchor as the claim derives it: lower case, letters (of any script),
\* digits, spaces and hyphens kept, runs of spaces made one hyphen, repeated
\* hyphens made one, page-<i> when nothing is left
ClaimedAnchor(title, i) ==
    LET kept == SelectSeq(ToLower(title),
                    LAMBDA c : c \in LowerASCII \cup Digits \cup {"U+00E9", " ", "-"})
        spaced == RunsToOne(kept, " ")
        dashed == [k \in 1..Len(spaced) |-> IF spaced[k] = " " THEN "-" ELSE spaced[k]]
        slug == RunsToOne(dashed, "-")
    IN  IF slug = <<>> THEN PageN(i) ELSE slug

\* C23 as stated: the anchor is the title in lower case with only letters,
\* digits, spaces and hyphens kept, whitespace runs turned into single hyphens
\* and repeated hyphens collapsed, or page-<i> when that is empty; it is
\* never empty.
C23_AsClaimed ==
    out # <<>> => out[1] = ClaimedAnchor(arg.title, arg.i) /\ out[1] # <<>>

\* the words of a text: its maximal runs of ASCII letters and digits
RECURSIVE WordsOf(_, _)
WordsOf(s, word) ==
    IF s = <<>> THEN (IF word = <<>> THEN <<>> ELSE <<word>>)
    ELSE IF Head(s) \in LowerASCII \cup Digits THEN WordsOf(Tail(s), Append(word, Head(s)))
    ELSE IF Head(s) \in {" ", "-"}
         THEN (IF word = <<>> THEN <<>> ELSE <<word>>) \o WordsOf(Tail(s), <<>>)
         ELSE WordsOf(Tail(s), word)

RECURSIVE JoinWords(_)
JoinWords(ws) ==
    IF ws = <<>> THEN <<>>
    ELSE IF Len(ws) = 1 THEN ws[1] ELSE ws[1] \o <<"-">> \o JoinWords(Tail(ws))

\* C23, amended: the anchor is made of the title's words - its runs of ASCII
\* letters and digits, in lower case, where spaces and hyphens separate
\* words and every other character is dropped - joined by single hyphens,
\* with no hyphen at either end; a title without any ASCII letter or digit
\* gets page-<i>; the anchor is never empty.
C23_Anchor ==
    out # <<>> =>
        LET words == WordsOf(ToLower(arg.title), <<>>)
        IN  /\ out[1] # <<>>
            /\ out[1] = IF words = <<>> THEN PageN(arg.i) ELSE JoinWords(words)

\* the title "A -" of the second page has given the anchor "a": the hyphen
\* that the space and the hyphen at the end turn into is removed
C23_Witness ==
    /\ arg = [title |-> <<"A", " ", "-">>, i |-> 2]
    /\ out = << <<"a">> >>

\* C28: sitemap resolution terminates for every finite set of documents, also
\* when an index lists itself or one of its ancestors.  The documents do not
\* change, so a call of fetchSitemapURLs for a URL that is already being
\* resolved further up the call chain repeats that call without end:
\* resolution that always terminates never has a URL twice on its call stack.
C28_NoCallRepeats ==
    \A i, j \in 1..Len(stack) : stack[i].url = stack[j].url => i = j

(***************************************************************************)
(* Fair scheduling: the goroutines of Run                                  *)
(***************************************************************************)
\* the steps of the main goroutine
MainStep ==
    \/ RunStart \/ SitemapFetch \/ SitemapRecurse \/ SitemapReturn \/ FilterStep
    \/ CleanAndFanOut \/ StartWorker \/ CollectRecv \/ CollectWrite \/ CollectEnd
    \/ SingleAndReturn

\* the steps of worker w other than the return of its request
WorkerStep(w) ==
    \/ WorkerRange(w) \/ WorkerCheck(w) \/ WorkerSleep(w) \/ WorkerSend(w)

\* Fetch returns: worker w leaves its request. Of the steps of Next only
\* WorkerRequest(w) changes wpc this way, and it can whenever w is there.
RequestReturns(w) == wpc[w] = "request" /\ wpc' = [wpc EXCEPT ![w] = "send"]

\* every goroutine that can run eventually runs and every fetch returns; the
\* signal may never come
Fairness ==
    /\ WF_vars(MainStep)
    /\ \A w \in Workers : WF_vars(WorkerStep(w)) /\ WF_wpc(RequestReturns(w))
    /\ WF_vars(CloseResults)

\* the runs followed under fairness: one worker and three pages (more than
\* resultCh buffers) listed by a sub-sitemap, one of them broken, and two
\* workers with a single page
InitFair ==
    /\ InitRun
    /\ NoCall
    /\ \/ /\ cfg = Config(1, 0, FALSE, FALSE, <<>>, <<>>, <<>>)
          /\ docs = World(Doc("ok", "sitemapindex", <<SM1>>),
                          Doc("ok", "urlset", <<PageA, PageB, PageC>>), FailDoc, FailDoc)
          /\ resp = SiteOf({PageB})
       \/ /\ cfg = Config(2, 0, FALSE, FALSE, <<>>, <<>>, <<>>)
          /\ docs = World(Doc("ok", "urlset", <<PageA>>), FailDoc, FailDoc, FailDoc)
          /\ resp = SiteOf({})

FairSpec == InitFair /\ [][Next]_vars /\ Fairness

\* C24: once the queue is filled, under fair scheduling and with every fetch
\* returning, no worker stays blocked in its send, every started worker
\* returns, resultCh is closed and the collector's loop and Run end - for
\* concurrency above N, for N above the buffer of resultCh, cancelled or not.
C24_CrawlTerminates ==
    /\ \A w \in Workers : (wpc[w] = "send") ~> (wpc[w] # "send")
    /\ \A w \in Workers : (wpc[w] # "none") ~> (wpc[w] = "returned")
    /\ (pc = "spawn") ~> (resultClosed = 1)
    /\ (pc = "spawn") ~> (pc = "exit")

\* an uncancelled run of one worker over more pages than resultCh buffers has
\* ended, and so has a run of two workers over one page
C24_Witness ==
    /\ pc = "exit" /\ resultClosed = 1 /\ ~cancelled
    /\ \A w \in 1..cfg.Concurrency : wpc[w] = "returned"
    /\ Len(urls) > 2 * cfg.Concurrency
    /\ Len(collected) = Len(urls)


(***************************************************************************)
(* C25: the counters of the collector                                      *)
(***************************************************************************)
\* the collector is in its loop: waiting for an outcome, or handling one
InLoop == pc \in {"collect", "write"}

\* C25 as stated: in every state of the collection loop done is the number of
\* pages written plus errCount and at most total, and after the loop of a run
\* that was not cancelled pages written plus errCount is total.
C25_AsClaimed ==
    /\ InLoop => (done = Len(results) + errCount /\ done <= Len(urls))
    /\ (LoopEnded /\ ~cancelled) => Len(results) + errCount = Len(urls)

\* C25 amended: whenever the collector waits for the next outcome, and after
\* the loop, done is the number of pages written plus errCount; while a
\* successful outcome is being written done is one more, that outcome being
\* counted by neither counter yet. done is the number of outcomes received
\* and never exceeds total; after the loop of a run that was not cancelled
\* pages written plus errCount is total.
C25_Accounting ==
    /\ (pc = "collect" \/ LoopEnded) => done = Len(results) + errCount
    /\ pc = "write" => (done = Len(results) + errCount + 1 /\ cur.Err = "nil")
    /\ done = Len(collected)
    /\ done <= Len(urls)
    /\ Cardinality({i \in 1..Len(collected) : collected[i].Err # "nil"}) <= errCount
    /\ (LoopEnded /\ ~cancelled) => Len(results) + errCount = Len(urls)

\* the loop of a run that was not cancelled has ended with a page written, a
\* page failed and a write failed
C25_Witness ==
    /\ LoopEnded /\ ~cancelled
    /\ Len(results) >= 1
    /\ \E i \in 1..Len(collected) : collected[i].Err # "nil"
    /\ errCount > Cardinality({i \in 1..Len(collected) : collected[i].Err # "nil"})


(***************************************************************************)
(* C26: who writes files, and when                                         *)
(***************************************************************************)
\* C26: every step that changes a file is a step of the collector and of no
\* worker - the write of the one outcome it holds, or the aggregate write -
\* and the aggregate is written only when resultCh is closed and empty, every
\* worker has returned and no outcome is held, so after every page write.
C26_SingleWriter ==
    [][(\E p \in DOMAIN files' : p \notin DOMAIN files \/ files'[p] # files[p]) =>
          /\ wpc' = wpc
          /\ \/ pc = "write" /\ pc' = "collect" /\ cur # NoResult
             \/ /\ pc = "single" /\ pc' = "exit"
                /\ resultClosed > 0 /\ resultCh = <<>> /\ cur = NoResult
                /\ \A w \in 1..cfg.Concurrency : wpc[w] = "returned"
                /\ \A i \in 1..Len(results) :
                      URLToFilePath(cfg.OutputDir, results[i].URL) \in DOMAIN files]_vars

\* two workers ran, two pages of the same path were written and the aggregate
\* is on disk
C26_Witness ==
    /\ pc = "exit" /\ cfg.SingleFile /\ cfg.Concurrency = 2
    /\ SingleFilePath(cfg.OutputDir) \in DOMAIN files
    /\ \E i, j \in 1..Len(results) :
          /\ i # j
          /\ URLToFilePath(cfg.OutputDir, results[i].URL)
                = URLToFilePath(cfg.OutputDir, results[j].URL)


(***************************************************************************)
(* C27: page paths and the output directory                                *)
(***************************************************************************)
\* dir is a proper ancestor of path: path is dir, a separator and at least
\* one more segment, none of them ".."
Inside(path, dir) ==
    LET segs == SplitSlash(path, <<>>)
        dsegs == SplitSlash(dir, <<>>)
    IN  /\ Len(segs) > Len(dsegs)
        /\ SubSeq(segs, 1, Len(dsegs)) = dsegs
        /\ \A i \in 1..Len(segs) : segs[i] \notin {<<>>, <<".">>, <<".", ".">>}

\* C27: the path URLToFilePath returns has the output directory as a proper
\* ancestor, for URL paths with ".." or empty segments too.
C27_InsideOutputDir ==
    out # <<>> => Inside(out[1], cfg.OutputDir)


(***************************************************************************)
(* C29: URLs dequeued after the signal                                     *)
(***************************************************************************)
\* no worker has entered processPage: no page request was prepared
NoPageProcessed == \A u \in PageSet : RequestURL(cfg, u) \notin fetched

\* a worker that finds ctx done at its check drops the URL it holds: it
\* returns, and the step puts nothing on resultCh, counts nothing, requests
\* nothing and writes nothing; a returned worker stays returned
DiscardStep ==
    \A w \in Workers :
        /\ (cancelled /\ wpc[w] = "check" /\ wpc'[w] # "check") =>
              /\ wpc'[w] = "returned"
              /\ wurl'[w] = <<>>
              /\ resultCh' = resultCh /\ collected' = collected
              /\ done' = done /\ errCount' = errCount /\ results' = results
              /\ files' = files /\ fetched' = fetched
        /\ wpc[w] = "returned" => (wpc'[w] = "returned" /\ wres'[w] = NoResult)

\* what a run has counted never exceeds what it queued
CountedAtMostQueued == Len(results) + errCount <= Len(urls)

\* C29 as stated, its last part: every run cancelled before any page is
\* processed ends with no page written and no error counted and returns nil.
C29_AsClaimed ==
    /\ CountedAtMostQueued
    /\ (pc = "exit" /\ cancelled /\ NoPageProcessed)
          => (Len(results) = 0 /\ errCount = 0 /\ retErr = "nil")

\* C29 amended: a URL held at the check after the signal is discarded
\* without an outcome; a run cancelled before any page is processed ends
\* with no page written and no error counted, and returns nil if it reached
\* the crawl; a run cancelled while the root sitemap is fetched
\* returns the sitemap error, and one whose output directory could not be
\* cleaned returns that error.
C29_DiscardedAfterCancel ==
    /\ [](CountedAtMostQueued
          /\ ((pc = "exit" /\ cancelled /\ NoPageProcessed)
                 => /\ Len(results) = 0 /\ errCount = 0 /\ done = 0
                    /\ DOMAIN files \subseteq DOMAIN InitialFiles
                    /\ (resultClosed > 0 => retErr = "nil")
                    /\ retErr \in {"nil", "sitemap", "cleaning output directory"}))
    /\ [][DiscardStep]_vars

\* a run with queued URLs was cancelled before any page was processed: its
\* workers dropped what they held, nothing was counted or written and Run
\* returned nil
C29_Witness ==
    /\ pc = "exit" /\ cancelled /\ NoPageProcessed
    /\ Len(urls) > 0 /\ resultClosed = 1
    /\ Len(results) + errCount < Len(urls)
    /\ done = 0 /\ retErr = "nil"
    /\ Len(urlCh) < Len(urls)

====
